---- MODULE Spec2Model ----
(***************************************************************************)
(* A model of verl/workers/actor/dp_actor.py (DataParallelPPOActor).       *)
(*                                                                         *)
(* Eight specifications share the module:                                  *)
(*   Spec      one call of update_policy: the mini-batch / micro-batch     *)
(*             loop, gradient accumulation, clipping and the guarded       *)
(*             optimizer step, and the metrics dictionary;                 *)
(*   SpecCompute  one call of compute_log_prob / compute_log_prob_pr /     *)
(*             compute_all_logits: micro-batching, concatenation and the   *)
(*             reverse permutation under dynamic batching;                 *)
(*   SpecPack  the packing (unpad_input) and unpacking (pad_input) of a    *)
(*             padded (N, S) tensor, as used by _forward_micro_batch;      *)
(*   SpecForward  one call of _forward_micro_batch: the packed path with   *)
(*             its roll, sequence-parallel slicing and gathering, and the  *)
(*             dense path;                                                 *)
(*   SpecRanks the ranks of a sequence-parallel group and the collective   *)
(*             calls each of them issues;                                  *)
(*   SpecSft   the auxiliary supervised loss of one micro-batch;           *)
(*   SpecMask  the selection of the batch fields and the response mask of  *)
(*             each micro-batch in normal mode;                            *)
(*   SpecCalls operations called one after the other on one actor.         *)
(*                                                                         *)
(* Conventions.  Python indices are 0-based; sequences here are 1-based,   *)
(* so example p of the source is example p+1 of the model, except for the  *)
(* flat indices of unpad_input, which keep the source's 0-based value      *)
(* example*S + position.  Floating-point values are abstracted: a loss or  *)
(* a row of log-probabilities is represented by the identity of the        *)
(* micro-batch or example it was computed from.                            *)
(***************************************************************************)
EXTENDS Integers, Sequences, FiniteSets, TLC

(***************************************************************************)
(* Bounds of the model.                                                    *)
(***************************************************************************)
MaxBatch == 4      \* examples in the batch handed to an operation
MaxSplit == 3      \* largest configured mini-batch / micro-batch size
MaxSp == 2         \* largest ulysses_sequence_parallel_size
MaxCells == 6      \* largest N * S of a padded tensor that is packed
MaxToken == 1      \* the entries of a padded tensor are 0..MaxToken
MaxGt == 4         \* largest N * T of the tensors of the auxiliary loss
MaxNegLogProb == 1 \* the log-probabilities of the auxiliary loss are -MaxNegLogProb..0
MaxMask == 4       \* largest N * S of the attention mask of the mask selection
MaxCalls == 2      \* operations called on one actor, one after the other

VARIABLES
    \* ---- update_policy ----
    pc,                    \* position in the running operation
    mode,                  \* argument `mode` of update_policy
    config,                \* self.config (the fields the loop reads)
    batch_size,            \* len(data.batch)
    requires_grad,         \* the batch tensors of the sft_only loss carry an autograd graph
    training,              \* self.actor_module.training
    dataloader,            \* batch.split(ppo_mini_batch_size)
    batch_idx,             \* 1-based index of the current mini-batch
    micro_batches,         \* micro-batches of the current mini-batch
    micro_idx,             \* 1-based index of the current micro-batch
    gradient_accumulation, \* self.gradient_accumulation (-1: attribute not set)
    data,                  \* the loop variable `data` (re-bound inside the loop body)
    params,                \* model parameters: number of optimizer updates applied
    grads,                 \* accumulated gradients: the backward passes summed into .grad
    metrics,               \* the metrics dictionary of the call
    ops,                   \* history: calls made on model / optimizer, in order
    \* ---- compute_log_prob, compute_log_prob_pr, compute_all_logits ----
    cpc,                   \* position in the compute_* operation
    cop,                   \* which compute_* operation runs
    cfg,                   \* meta_info and actor flags read by compute_*
    cindices,              \* `indices` returned by rearrange_micro_batches
    cmicro,                \* micro-batches (lists of examples) still to run, in order
    clst,                  \* log_probs_lst / all_logits_lst: per-micro-batch results
    cout,                  \* the returned tensor, as a list of rows
    \* ---- packing ----
    kpc,                   \* position in the pack / unpack round trip
    kx,                    \* padded tensor x, shape (N, S)
    kmask,                 \* attention_mask, shape (N, S)
    kflat,                 \* packed values
    kindices,              \* indices recorded by unpad_input
    kout,                  \* pad_input's result, shape (N, S)
    \* ---- _forward_micro_batch ----
    fpc,                   \* position in the forward of one micro-batch
    fids,                  \* micro_batch['input_ids'], shape (N, S)
    fmask,                 \* micro_batch['attention_mask'], shape (N, S)
    fresp,                 \* micro_batch['responses'], shape (N, R)
    frmpad,                \* self.use_remove_padding
    fsp,                   \* self.ulysses_sequence_parallel_size
    flocals,               \* local values of the packed path, kept for inspection
    fout,                  \* the returned pair (entropy, log_probs), each (N, R)
    \* ---- the ranks of one sequence-parallel group ----
    rop,                   \* the operation every rank of the group runs
    rcfg,                  \* the configuration shared by the ranks
    rplan,                 \* micro-batches of the operation, in order (their sizes)
    rpc,                   \* per rank: running, waiting in a collective, returned, failed
    ru,                    \* per rank: 1-based index of its current micro-batch
    rcalls,                \* per rank: the collective calls it has issued, in order
    \* ---- the auxiliary supervised loss of one micro-batch ----
    spc,                   \* position in the computation of the loss
    smode,                 \* the objective mode that computes it
    sgt,                   \* data['ground_truth_mask_pr'], shape (N, T)
    slp,                   \* data['old_log_probs_pr'], shape (N, T)
    sloss,                 \* sft_loss, as a fraction
    \* ---- the response mask of update_policy in normal mode ----
    mpc,                   \* position in update_policy
    mkeys,                 \* the optional keys that data.batch carries
    mcfg,                  \* the configuration flags that select keys
    mattn,                 \* data.batch['attention_mask'], shape (N, S)
    moverride,             \* data.batch['response_mask_pr'], shape (N, R), when carried
    mselect,               \* select_keys
    mmicro,                \* micro-batches (lists of examples) still to run
    mused,                 \* response_mask of every micro-batch run so far
    \* ---- the actor across calls ----
    calls,                 \* the operations called on the actor so far, in order
    actor_optimizer        \* self.actor_optimizer: "optimizer", or "none" (reference policy)

upVars == <<pc, mode, config, batch_size, requires_grad, training, dataloader,
            batch_idx, micro_batches, micro_idx, gradient_accumulation, data,
            params, grads, metrics, ops>>
cpVars == <<cpc, cop, cfg, cindices, cmicro, clst, cout>>
pkVars == <<kpc, kx, kmask, kflat, kindices, kout>>
fwVars == <<fpc, fids, fmask, fresp, frmpad, fsp, flocals, fout>>
rkVars == <<rop, rcfg, rplan, rpc, ru, rcalls>>
sfVars == <<spc, smode, sgt, slp, sloss>>
mkVars == <<mpc, mkeys, mcfg, mattn, moverride, mselect, mmicro, mused>>
acVars == <<calls, actor_optimizer>>
vars == <<upVars, cpVars, pkVars, fwVars, rkVars, sfVars, mkVars, acVars>>

(***************************************************************************)
(* Helpers on sequences.                                                   *)
(***************************************************************************)
Range(s) == {s[i] : i \in DOMAIN s}

RECURSIVE Flatten(_)
\* itertools.chain.from_iterable / torch.concat(dim=0) over a list of lists
Flatten(ss) == IF ss = <<>> THEN <<>> ELSE Head(ss) \o Flatten(Tail(ss))

Min(a, b) == IF a <= b THEN a ELSE b

RECURSIVE SplitDropTail(_, _)
\* a split that silently drops a final chunk shorter than n
SplitDropTail(s, n) ==
    IF Len(s) < n THEN <<>>
    ELSE <<SubSeq(s, 1, n)>> \o SplitDropTail(SubSeq(s, n + 1, Len(s)), n)

RECURSIVE Split(_, _)
\* TensorDict.split(n): contiguous chunks of n rows, the last one shorter
\* when n does not divide the number of rows (torch.split semantics)
Split(s, n) ==
    IF s = <<>> THEN <<>>
    ELSE <<SubSeq(s, 1, Min(n, Len(s)))>> \o Split(SubSeq(s, Min(n, Len(s)) + 1, Len(s)), n)

Perms(S) ==
    {f \in [1..Cardinality(S) -> S] : \A i, j \in 1..Cardinality(S) : i # j => f[i] # f[j]}

RECURSIVE Chop(_, _)
\* cut the sequence s after the positions in cuts
Chop(s, cuts) ==
    IF s = <<>> THEN <<>>
    ELSE LET k == CHOOSE c \in cuts \cup {Len(s)} : \A d \in cuts \cup {Len(s)} : c <= d
         IN <<SubSeq(s, 1, k)>> \o Chop(SubSeq(s, k + 1, Len(s)), {c - k : c \in cuts \ {k}})

\* rearrange_micro_batches(batch, max_token_len): the index lists it may
\* return for a batch whose rows are the examples of the sequence s.  Every
\* grouping of the examples into non-empty micro-batches, in any order.
rearrange_micro_batches(s) ==
    {Chop([i \in 1..Len(s) |-> s[p[i]]], cuts) :
        p \in Perms(1..Len(s)), cuts \in SUBSET (1..(Len(s) - 1))}

(***************************************************************************)
(* The metrics dictionary.  A Python dict whose values are either a list   *)
(* (built by append_to_dict) or a bare scalar (assigned with               *)
(* metrics[key] = value); items holds the list, or the one scalar.         *)
(* A recorded value is the pair <<mini-batch, micro-batch>> it was         *)
(* computed from (<<0, 0>> for a configured coefficient).                  *)
(***************************************************************************)
NormalMetricKeys ==
    {"actor/entropy_loss", "actor/pg_loss", "actor/pg_clipfrac", "actor/ppo_kl"}

\* append_to_dict(data, new_data): one value appended per key of new_data,
\* the list created on first use
append_to_dict(m, d) ==
    [k \in DOMAIN m \cup DOMAIN d |->
        IF k \in DOMAIN d
        THEN [kind |-> "list",
              items |-> (IF k \in DOMAIN m THEN m[k].items ELSE <<>>) \o <<d[k]>>]
        ELSE m[k]]

\* metrics[key] = value
SetItem(m, key, value) ==
    [k \in DOMAIN m \cup {key} |->
        IF k = key THEN [kind |-> "scalar", items |-> <<value>>] ELSE m[k]]

CoefValue == <<0, 0>>

(***************************************************************************)
(* History entries: one per call made on the model or the optimizer.       *)
(* params and grads are the parameters and the accumulated gradients       *)
(* right after the call.                                                   *)
(***************************************************************************)
Ev(op, b, u, fin, p, g) ==
    [op |-> op, b |-> b, u |-> u, finite |-> fin, params |-> p, grads |-> g]

Modes == {"normal", "sft_only", "other"}

Configs ==
    [use_dynamic_bsz : BOOLEAN,
     ppo_mini_batch_size : 1..MaxSplit,
     ppo_micro_batch_size_per_gpu : 1..MaxSplit,
     use_kl_loss : BOOLEAN,
     use_sft_loss : BOOLEAN,
     sft_type : {"bilevel", "multi_task"}]

\* config.get('use_sft_loss', False) and config.get('sft_type', 'bilevel') == 'multi_task'
MultiTask == config.use_sft_loss /\ config.sft_type = "multi_task"

\* config.get('use_sft_loss', False) and config.get('sft_type') == 'bilevel'
Bilevel == config.use_sft_loss /\ config.sft_type = "bilevel"

\* a dispatch that lets an unrecognized mode fall through
ModeAcceptedFallback == mode # "sft_only" \/ Bilevel

\* the mode dispatch of lines 464-481: normal, or sft_only with the bilevel
\* configuration its assertion demands; anything else raises
ModeAccepted == mode = "normal" \/ (mode = "sft_only" /\ Bilevel)

(***************************************************************************)
(* update_policy, lines 458-488: switch to training mode, dispatch on the  *)
(* mode, split the batch into mini-batches, create the metrics dict.       *)
(***************************************************************************)
update_policy_enter ==
    /\ pc = "call"
    /\ training' = TRUE
    /\ IF ModeAccepted
       THEN /\ dataloader' = Split([i \in 1..batch_size |-> i], config.ppo_mini_batch_size)
            /\ metrics' = <<>>
            /\ batch_idx' = 1
            /\ pc' = "mini_batch"
       ELSE \* raise NotImplementedError / AssertionError
            /\ pc' = "failed"
            /\ UNCHANGED <<dataloader, metrics, batch_idx>>
    /\ UNCHANGED <<mode, config, batch_size, requires_grad, micro_batches, micro_idx,
                   gradient_accumulation, data, params, grads, ops>>

\* the micro-batches of a mini-batch, lines 492-498
MicroBatchChoices(mini_batch) ==
    IF config.use_dynamic_bsz
    THEN rearrange_micro_batches(mini_batch)
    ELSE {Split(mini_batch, config.ppo_micro_batch_size_per_gpu)}

\* a mini-batch that starts without zeroing the gradients
mini_batch_begin_keeping_grads ==
    /\ pc = "mini_batch"
    /\ batch_idx <= Len(dataloader)
    /\ \E mbs \in MicroBatchChoices(dataloader[batch_idx]) : micro_batches' = mbs
    /\ gradient_accumulation' =
          IF config.use_dynamic_bsz THEN gradient_accumulation
          ELSE config.ppo_mini_batch_size \div config.ppo_micro_batch_size_per_gpu
    /\ micro_idx' = 1
    /\ pc' = "micro_batch"
    /\ UNCHANGED <<mode, config, batch_size, requires_grad, training, dataloader,
                   batch_idx, data, params, metrics, grads, ops>>

(***************************************************************************)
(* Lines 489-500: next mini-batch of the dataloader, its micro-batches,    *)
(* and actor_optimizer.zero_grad().                                        *)
(***************************************************************************)
mini_batch_begin ==
    /\ pc = "mini_batch"
    /\ batch_idx <= Len(dataloader)
    /\ \E mbs \in MicroBatchChoices(dataloader[batch_idx]) : micro_batches' = mbs
    /\ gradient_accumulation' =
          IF config.use_dynamic_bsz THEN gradient_accumulation
          ELSE config.ppo_mini_batch_size \div config.ppo_micro_batch_size_per_gpu
    /\ grads' = <<>>
    /\ ops' = Append(ops, Ev("zero_grad", batch_idx, 0, TRUE, params, <<>>))
    /\ micro_idx' = 1
    /\ pc' = "micro_batch"
    /\ UNCHANGED <<mode, config, batch_size, requires_grad, training, dataloader,
                   batch_idx, data, params, metrics>>

\* diagnostics recorded for the first micro-batch of a mini-batch only
NormalMetricsOncePerMiniBatch(m, b, u) ==
    IF u = 1 THEN append_to_dict(m, [k \in NormalMetricKeys |-> <<b, u>>]) ELSE m

\* the metrics written by the loss computation of one micro-batch in normal
\* mode, lines 541-575
NormalMetrics(m, b, u) ==
    LET m1 == IF config.use_kl_loss
              THEN SetItem(SetItem(m, "actor/kl_loss", <<b, u>>), "actor/kl_coef", CoefValue)
              ELSE m
        m2 == IF MultiTask
              THEN SetItem(SetItem(m1, "actor/sft_loss", <<b, u>>), "actor/sft_coef", CoefValue)
              ELSE m1
    IN append_to_dict(m2, [k \in NormalMetricKeys |-> <<b, u>>])

\* the metrics written for one micro-batch in sft_only mode, lines 589-590
SftMetrics(m, b, u) ==
    SetItem(SetItem(m, "actor/sft_loss", <<b, u>>), "actor/sft_coef", CoefValue)

(***************************************************************************)
(* Lines 502-593: the loss of the next micro-batch.  In normal mode the    *)
(* model's forward pass runs (_forward_micro_batch) and, at line 569, the  *)
(* name `data` is re-bound to the dict of the four diagnostics; in         *)
(* sft_only mode the loss is computed from the batch alone and `data`      *)
(* stays the micro-batch.                                                  *)
(***************************************************************************)
micro_batch_loss ==
    /\ pc = "micro_batch"
    /\ micro_idx <= Len(micro_batches)
    /\ IF mode = "normal"
       THEN /\ ops' = Append(ops, Ev("forward", batch_idx, micro_idx, training, params, grads))
            /\ metrics' = NormalMetrics(metrics, batch_idx, micro_idx)
            /\ data' = [kind |-> "dict", len |-> Cardinality(NormalMetricKeys)]
            /\ pc' = "backward"
       ELSE IF mode = "sft_only" /\ Bilevel
       THEN /\ ops' = ops
            /\ metrics' = SftMetrics(metrics, batch_idx, micro_idx)
            /\ data' = [kind |-> "micro_batch", len |-> Len(micro_batches[micro_idx])]
            /\ pc' = "backward"
       ELSE \* raise NotImplementedError (line 593) / AssertionError (line 578)
            /\ pc' = "failed"
            /\ UNCHANGED <<ops, metrics, data>>
    /\ UNCHANGED <<mode, config, batch_size, requires_grad, training, dataloader,
                   batch_idx, micro_batches, micro_idx, gradient_accumulation,
                   params, grads>>

\* the factor applied to policy_loss as the fraction num / den, lines 595-599;
\* d is what the name `data` is bound to there
LossScale(d) ==
    IF config.use_dynamic_bsz
    THEN [num |-> d.len, den |-> config.ppo_mini_batch_size]
    ELSE [num |-> 1, den |-> gradient_accumulation]

\* a backward pass followed by an optimizer step of its own
micro_batch_backward_stepping ==
    /\ pc = "backward"
    /\ IF mode = "normal" \/ requires_grad
       THEN LET sc == LossScale(data)
                g == grads \o <<[b |-> batch_idx, u |-> micro_idx,
                                 ex |-> micro_batches[micro_idx],
                                 num |-> sc.num, den |-> sc.den]>>
            IN /\ grads' = g
               /\ ops' = Append(ops, Ev("backward", batch_idx, micro_idx, TRUE, params, g))
               /\ params' = params + 1
               /\ micro_idx' = micro_idx + 1
               /\ pc' = "micro_batch"
       ELSE /\ pc' = "failed"
            /\ UNCHANGED <<grads, ops, micro_idx, params>>
    /\ UNCHANGED <<mode, config, batch_size, requires_grad, training, dataloader,
                   batch_idx, micro_batches, gradient_accumulation, data, metrics>>

(***************************************************************************)
(* Lines 595-600: scale the loss and run loss.backward().  backward()      *)
(* raises when the loss has no autograd graph, which is the case in        *)
(* sft_only mode unless the batch tensors themselves require grad.         *)
(***************************************************************************)
micro_batch_backward ==
    /\ pc = "backward"
    /\ IF mode = "normal" \/ requires_grad
       THEN LET sc == LossScale(data)
                g == grads \o <<[b |-> batch_idx, u |-> micro_idx,
                                 ex |-> micro_batches[micro_idx],
                                 num |-> sc.num, den |-> sc.den]>>
            IN /\ grads' = g
               /\ ops' = Append(ops, Ev("backward", batch_idx, micro_idx, TRUE, params, g))
               /\ micro_idx' = micro_idx + 1
               /\ pc' = "micro_batch"
       ELSE /\ pc' = "failed"
            /\ UNCHANGED <<grads, ops, micro_idx>>
    /\ UNCHANGED <<mode, config, batch_size, requires_grad, training, dataloader,
                   batch_idx, micro_batches, gradient_accumulation, data, params,
                   metrics>>

\* torch.isfinite(grad_norm): a loss divided by gradient_accumulation = 0 is
\* infinite or NaN and so is the norm; otherwise the norm is finite or not,
\* depending on the values
FiniteChoices == IF \E i \in DOMAIN grads : grads[i].den = 0 THEN {FALSE} ELSE BOOLEAN

\* _optimizer_step with the guard removed: the optimizer steps whatever the norm
optimizer_step_unguarded(finite) ==
    /\ params' = params + 1
    /\ grads' = grads
    /\ ops' = ops \o <<Ev("clip", batch_idx, 0, finite, params, grads),
                       Ev("step", batch_idx, 0, TRUE, params + 1, grads)>>

(***************************************************************************)
(* _optimizer_step, lines 257-271: clip the gradient norm; when the norm   *)
(* is not finite zero the gradients, otherwise step the optimizer.         *)
(***************************************************************************)
optimizer_step(finite) ==
    IF ~finite
    THEN /\ params' = params
         /\ grads' = <<>>
         /\ ops' = ops \o <<Ev("clip", batch_idx, 0, FALSE, params, grads),
                            Ev("zero_grad", batch_idx, 0, TRUE, params, <<>>)>>
    ELSE /\ params' = params + 1
         /\ grads' = grads
         /\ ops' = ops \o <<Ev("clip", batch_idx, 0, TRUE, params, grads),
                            Ev("step", batch_idx, 0, TRUE, params + 1, grads)>>

\* the key under which the gradient norm is recorded, lines 604-609
GradNormKey == IF mode = "normal" THEN "actor/grad_norm" ELSE "acotr/sft_grad_norm"

\* an update that abandons the call when the norm is not finite
mini_batch_update_aborting ==
    /\ pc = "micro_batch"
    /\ micro_idx > Len(micro_batches)
    /\ \E finite \in FiniteChoices :
          /\ optimizer_step(finite)
          /\ pc' = IF finite THEN "mini_batch" ELSE "failed"
    /\ metrics' = append_to_dict(metrics, [k \in {GradNormKey} |-> <<batch_idx, 0>>])
    /\ batch_idx' = batch_idx + 1
    /\ UNCHANGED <<mode, config, batch_size, requires_grad, training, dataloader,
                   micro_batches, micro_idx, gradient_accumulation, data>>

(***************************************************************************)
(* Lines 602-609: after the last micro-batch, the optimizer step and the   *)
(* gradient-norm diagnostic.                                               *)
(***************************************************************************)
mini_batch_update ==
    /\ pc = "micro_batch"
    /\ micro_idx > Len(micro_batches)
    /\ \E finite \in FiniteChoices : optimizer_step(finite)
    /\ metrics' = append_to_dict(metrics, [k \in {GradNormKey} |-> <<batch_idx, 0>>])
    /\ batch_idx' = batch_idx + 1
    /\ pc' = "mini_batch"
    /\ UNCHANGED <<mode, config, batch_size, requires_grad, training, dataloader,
                   micro_batches, micro_idx, gradient_accumulation, data>>

(***************************************************************************)
(* Lines 611-612: the final zero_grad() and the return of the metrics.     *)
(***************************************************************************)
update_policy_return ==
    /\ pc = "mini_batch"
    /\ batch_idx > Len(dataloader)
    /\ grads' = <<>>
    /\ ops' = Append(ops, Ev("zero_grad", batch_idx, 0, TRUE, params, <<>>))
    /\ pc' = "returned"
    /\ UNCHANGED <<mode, config, batch_size, requires_grad, training, dataloader,
                   batch_idx, micro_batches, micro_idx, gradient_accumulation, data,
                   params, metrics>>

(***************************************************************************)
(* compute_log_prob, compute_log_prob_pr and compute_all_logits.           *)
(* A returned tensor is a list of rows; the row computed by the forward    *)
(* pass for example e of the batch is Row(name, e).                        *)
(***************************************************************************)
ComputeOps == {"compute_log_prob", "compute_log_prob_pr", "compute_all_logits"}

\* the tensors an operation returns (lines 328, 387, 456)
Outputs(op) == IF op = "compute_all_logits" THEN {"all_logits"} ELSE {"log_probs", "entropy"}

Row(name, e) == <<name, e>>

ComputeConfigs ==
    [use_dynamic_bsz : BOOLEAN,
     micro_batch_size : 1..MaxSplit,
     use_remove_padding : BOOLEAN,
     sp_size : 1..MaxSp,
     batch_size : 1..MaxBatch]

\* get_reverse_idx(idx_map): position p holds the slot of the flattened
\* index list at which example p was placed
get_reverse_idx(idx) ==
    [p \in 1..Len(idx) |-> CHOOSE k \in 1..Len(idx) : idx[k] = p]

\* indexing the concatenated rows with the planner's indices themselves
RestoreByIndices(concat, indices) ==
    [p \in 1..Len(indices) |-> concat[indices[p]]]

\* lines 321-326 (380-385, 444-447): revert_indices = get_reverse_idx(indices)
\* and tensor[revert_indices]
Restore(concat, indices) ==
    LET revert_indices == get_reverse_idx(indices)
    IN [p \in 1..Len(revert_indices) |-> concat[revert_indices[p]]]

\* a compute_* entry that zeroes the gradients through the optimizer first
compute_enter_zero_grad ==
    /\ cpc = "call"
    /\ training' = FALSE
    /\ IF actor_optimizer = "none"
       THEN \* AttributeError: 'NoneType' object has no attribute 'zero_grad'
            /\ cpc' = "failed"
            /\ UNCHANGED <<cindices, cmicro, clst, grads, ops>>
       ELSE /\ IF cfg.use_dynamic_bsz
               THEN \E idx \in rearrange_micro_batches([i \in 1..cfg.batch_size |-> i]) :
                        /\ cindices' = idx
                        /\ cmicro' = idx
               ELSE /\ cindices' = <<>>
                    /\ cmicro' = Split([i \in 1..cfg.batch_size |-> i], cfg.micro_batch_size)
            /\ clst' = [name \in Outputs(cop) |-> <<>>]
            /\ grads' = <<>>
            /\ ops' = Append(ops, Ev("zero_grad", 0, 0, TRUE, params, <<>>))
            /\ cpc' = "loop"
    /\ UNCHANGED <<cop, cfg, cout>>
    /\ UNCHANGED <<pc, mode, config, batch_size, requires_grad, dataloader, batch_idx,
                   micro_batches, micro_idx, gradient_accumulation, data, params,
                   metrics>>

\* a compute_* entry that leaves the model in the mode it finds it in
compute_enter_keeping_mode ==
    /\ cpc = "call"
    /\ IF cfg.use_dynamic_bsz
       THEN \E idx \in rearrange_micro_batches([i \in 1..cfg.batch_size |-> i]) :
                /\ cindices' = idx
                /\ cmicro' = idx
       ELSE /\ cindices' = <<>>
            /\ cmicro' = Split([i \in 1..cfg.batch_size |-> i], cfg.micro_batch_size)
    /\ clst' = [name \in Outputs(cop) |-> <<>>]
    /\ cpc' = "loop"
    /\ UNCHANGED <<cop, cfg, cout>>
    /\ UNCHANGED upVars

(***************************************************************************)
(* Lines 291-309 (348-368, 408-429): eval mode, the micro-batches and the  *)
(* empty result lists.                                                     *)
(***************************************************************************)
compute_enter ==
    /\ cpc = "call"
    /\ training' = FALSE
    /\ IF cfg.use_dynamic_bsz
       THEN \E idx \in rearrange_micro_batches([i \in 1..cfg.batch_size |-> i]) :
                /\ cindices' = idx
                /\ cmicro' = idx
       ELSE /\ cindices' = <<>>
            /\ cmicro' = Split([i \in 1..cfg.batch_size |-> i], cfg.micro_batch_size)
    /\ clst' = [name \in Outputs(cop) |-> <<>>]
    /\ cpc' = "loop"
    /\ UNCHANGED <<cop, cfg, cout>>
    /\ UNCHANGED <<pc, mode, config, batch_size, requires_grad, dataloader, batch_idx,
                   micro_batches, micro_idx, gradient_accumulation, data, params,
                   grads, metrics, ops>>

\* _forward_micro_batch_2 ends in `assert False` (line 215) when padding is
\* removed and the sequence-parallel width exceeds one
ForwardFails == cop = "compute_all_logits" /\ cfg.use_remove_padding /\ cfg.sp_size > 1

(***************************************************************************)
(* Lines 310-315 (369-374, 430-433): the forward pass of the next          *)
(* micro-batch under torch.no_grad(), its result appended to the lists.    *)
(***************************************************************************)
compute_forward ==
    /\ cpc = "loop"
    /\ cmicro # <<>>
    /\ ops' = Append(ops, Ev("forward", 0, Len(clst[CHOOSE n \in Outputs(cop) : TRUE]) + 1,
                             training, params, grads))
    /\ IF ForwardFails
       THEN /\ cpc' = "failed"
            /\ UNCHANGED <<cmicro, clst>>
       ELSE /\ clst' = [name \in Outputs(cop) |->
                          Append(clst[name],
                                 [i \in 1..Len(Head(cmicro)) |-> Row(name, Head(cmicro)[i])])]
            /\ cmicro' = Tail(cmicro)
            /\ cpc' = "loop"
    /\ UNCHANGED <<cop, cfg, cindices, cout>>
    /\ UNCHANGED <<pc, mode, config, batch_size, requires_grad, training, dataloader,
                   batch_idx, micro_batches, micro_idx, gradient_accumulation, data,
                   params, grads, metrics>>

\* the first index list only
ChainIndicesFirst(indices) == IF indices = <<>> THEN <<>> ELSE Head(indices)

\* line 321 (380, 444): list(itertools.chain.from_iterable(indices))
ChainIndices(indices) == Flatten(indices)

(***************************************************************************)
(* Lines 316-328 (375-387, 441-456): concatenate the per-micro-batch       *)
(* results and, under dynamic batching, check the index count and restore  *)
(* the original order.                                                     *)
(***************************************************************************)
compute_return ==
    /\ cpc = "loop"
    /\ cmicro = <<>>
    /\ LET indices == ChainIndices(cindices)
           concat == [name \in Outputs(cop) |-> Flatten(clst[name])]
       IN IF ~cfg.use_dynamic_bsz
          THEN /\ cout' = concat
               /\ cpc' = "returned"
          ELSE IF \A name \in Outputs(cop) : Len(indices) = Len(concat[name])
          THEN /\ cout' = [name \in Outputs(cop) |-> Restore(concat[name], indices)]
               /\ cpc' = "returned"
          ELSE \* AssertionError
               /\ cout' = cout
               /\ cpc' = "failed"
    /\ UNCHANGED <<cop, cfg, cindices, cmicro, clst>>
    /\ UNCHANGED upVars

(***************************************************************************)
(* Packing.  A padded tensor of shape (N, S) is a sequence of N rows of    *)
(* length S.  Flat indices are the source's: example * S + position,       *)
(* both counted from 0.                                                    *)
(***************************************************************************)
Shapes == {sh \in (1..MaxCells) \X (1..MaxCells) : sh[1] * sh[2] <= MaxCells}

At(x, S, f) == x[(f \div S) + 1][(f % S) + 1]

RECURSIVE NonZeroFrom(_, _, _, _)
\* the flat indices f .. N*S-1 at which the mask holds, in increasing order
NonZeroFrom(mask, N, S, f) ==
    IF f >= N * S THEN <<>>
    ELSE (IF At(mask, S, f) THEN <<f>> ELSE <<>>) \o NonZeroFrom(mask, N, S, f + 1)

RECURSIVE PositionsFrom(_, _, _, _)
\* as NonZeroFrom, recording the position inside the example only
PositionsFrom(mask, N, S, f) ==
    IF f >= N * S THEN <<>>
    ELSE (IF At(mask, S, f) THEN <<f % S>> ELSE <<>>) \o PositionsFrom(mask, N, S, f + 1)

\* indices that lose the example: the position inside the row
unpad_indices_in_row(mask) == PositionsFrom(mask, Len(mask), Len(mask[1]), 0)

\* unpad_input's indices (line 76): torch.nonzero(attention_mask.flatten())
unpad_indices(mask) == NonZeroFrom(mask, Len(mask), Len(mask[1]), 0)

\* index_first_axis(rearrange(x, "b s ... -> (b s) ..."), indices), lines 76-82
index_first_axis(x, indices) ==
    [i \in 1..Len(indices) |-> At(x, Len(x[1]), indices[i])]

\* pad_input(hidden_states, indices, batch, seqlen), lines 121-128: zeros of
\* shape (batch * seqlen), output[indices] = hidden_states, reshaped
pad_input(flat, indices, N, S) ==
    [e \in 1..N |-> [s \in 1..S |->
        LET f == (e - 1) * S + (s - 1)
        IN IF \E i \in 1..Len(indices) : indices[i] = f
           THEN flat[CHOOSE i \in 1..Len(indices) : indices[i] = f]
           ELSE 0]]

\* lines 75-82: remove the padding
pack ==
    /\ kpc = "padded"
    /\ kindices' = unpad_indices(kmask)
    /\ kflat' = index_first_axis(kx, unpad_indices(kmask))
    /\ kpc' = "packed"
    /\ UNCHANGED <<kx, kmask, kout>>

\* lines 120-128: pad back to (bsz, seqlen)
unpack ==
    /\ kpc = "packed"
    /\ kout' = pad_input(kflat, kindices, Len(kx), Len(kx[1]))
    /\ kpc' = "unpacked"
    /\ UNCHANGED <<kx, kmask, kflat, kindices>>

(***************************************************************************)
(* _forward_micro_batch.  The token ids of a micro-batch are pairwise      *)
(* distinct and positive, so a token id identifies the position it was     *)
(* read from; 0 is the filler of the sequence-parallel padding.  The       *)
(* model's output is abstracted by provenance: the logits of a position    *)
(* are named by the token that position holds, a log-probability by the    *)
(* pair (position of the logits, label), an entropy by the position of     *)
(* its logits.  A value written by pad_input's zero fill is ZeroLogProb or *)
(* ZeroEntropy.                                                            *)
(***************************************************************************)
ForwardShapes == {sh \in Shapes : sh[2] >= 2}

\* input_ids of shape (N, S): token (e, s) is its 1-based flat position
TokenIds(N, S) == [e \in 1..N |-> [s \in 1..S |-> (e - 1) * S + s]]

\* the batch schema: the responses are the final R tokens of every sequence
ResponsesOf(ids, R) ==
    [e \in 1..Len(ids) |-> [j \in 1..R |-> ids[e][Len(ids[e]) - R + j]]]

ZeroLogProb == [at |-> -1, label |-> -1]
ZeroEntropy == [at |-> -1]

\* a rotation to the right: the label of a position is the previous token
roll_previous_token(x) == [i \in 1..Len(x) |-> x[((i - 2) % Len(x)) + 1]]

\* torch.roll(input_ids_rmpad, shifts=-1, dims=1), line 85
roll(x) == [i \in 1..Len(x) |-> x[(i % Len(x)) + 1]]

\* pad_size of ulysses_pad_and_slice_inputs for a stream of length L
pad_size_of(L, sp_size) == (sp_size - (L % sp_size)) % sp_size

\* ulysses_pad_and_slice_inputs(flat, _, sp_size) on rank `rank` (0-based):
\* pad on the right with filler 0 to a multiple of sp_size, keep this rank's
\* contiguous chunk
ulysses_pad_and_slice_inputs(flat, sp_size, rank) ==
    LET pad == pad_size_of(Len(flat), sp_size)
        padded == flat \o [i \in 1..pad |-> 0]
        chunk == Len(padded) \div sp_size
    IN [shard |-> SubSeq(padded, rank * chunk + 1, (rank + 1) * chunk),
        pad_size |-> pad]

\* gather_outpus_and_unpad(x, gather_dim=0, unpad_dim=0, padding_size): the
\* ranks' tensors concatenated in rank order, the trailing padding removed
gather_outpus_and_unpad(shards, padding_size) ==
    SubSeq(Flatten(shards), 1, Len(Flatten(shards)) - padding_size)

\* self.actor_module(input_ids=...).logits, position by position
actor_module(input_ids) == [i \in DOMAIN input_ids |-> input_ids[i]]

\* logprobs_from_logits(logits, labels), position by position
logprobs_from_logits(logits, labels) ==
    [i \in DOMAIN logits |-> [at |-> logits[i], label |-> labels[i]]]

\* entropy_from_logits(logits), position by position
entropy_from_logits(logits) == [i \in DOMAIN logits |-> [at |-> logits[i]]]

\* pad_input on a stream of values: every packed value goes back to the
\* cell its index names, every other cell holds zero
Scatter(values, indices, N, S, zero) ==
    LET where == pad_input([i \in 1..Len(values) |-> i], indices, N, S)
    IN [e \in 1..N |-> [s \in 1..S |->
           IF where[e][s] = 0 THEN zero ELSE values[where[e][s]]]]

\* the slice [:, -R:], the last R positions
ResponseSliceLast(full, R) ==
    [e \in 1..Len(full) |-> [j \in 1..R |-> full[e][Len(full[e]) - R + j]]]

\* the slice [:, -response_length - 1:-1] of lines 131-132 and 142
ResponseSlice(full, R) ==
    [e \in 1..Len(full) |-> [j \in 1..R |-> full[e][Len(full[e]) - R - 1 + j]]]

\* a gather that keeps the padding (padding_size = 0)
GatherKeepPadding(shards, padding_size) == gather_outpus_and_unpad(shards, 0)

\* lines 113-119: the gather of one per-rank result with the pad_size that
\* the slicing of the inputs returned
Gather(shards, padding_size) == gather_outpus_and_unpad(shards, padding_size)

NoLocals ==
    [indices |-> <<>>, rolled |-> <<>>, pad_size |-> 0, label_shards |-> <<>>,
     log_probs |-> <<>>, entropy |-> <<>>]

\* lines 75-132: the packed path.  Under sequence parallelism every rank
\* runs the model on its shard and the gather hands every rank the whole
\* stream, so the returned pair is the same on every rank.
forward_rmpad(ids, mask, R, sp_size) ==
    LET N == Len(ids)
        S == Len(ids[1])
        indices == unpad_indices(mask)
        input_ids_rmpad == index_first_axis(ids, indices)
        rolled == roll(input_ids_rmpad)
        use_ulysses_sp == sp_size > 1
        pad_size == IF use_ulysses_sp
                    THEN ulysses_pad_and_slice_inputs(input_ids_rmpad, sp_size, 0).pad_size
                    ELSE 0
        ranks == IF use_ulysses_sp THEN 1..sp_size ELSE {1}
        input_shard(r) ==
            IF use_ulysses_sp
            THEN ulysses_pad_and_slice_inputs(input_ids_rmpad, sp_size, r - 1).shard
            ELSE input_ids_rmpad
        label_shard(r) ==
            IF use_ulysses_sp
            THEN ulysses_pad_and_slice_inputs(rolled, sp_size, r - 1).shard
            ELSE rolled
        entropy_shard(r) == entropy_from_logits(actor_module(input_shard(r)))
        log_probs_shard(r) ==
            logprobs_from_logits(actor_module(input_shard(r)), label_shard(r))
        log_probs == IF use_ulysses_sp
                     THEN Gather([r \in ranks |-> log_probs_shard(r)], pad_size)
                     ELSE log_probs_shard(1)
        entropy_rmpad == IF use_ulysses_sp
                         THEN Gather([r \in ranks |-> entropy_shard(r)], pad_size)
                         ELSE entropy_shard(1)
        full_entropy == Scatter(entropy_rmpad, indices, N, S, ZeroEntropy)
        full_log_probs == Scatter(log_probs, indices, N, S, ZeroLogProb)
    IN [locals |-> [indices |-> indices, rolled |-> rolled, pad_size |-> pad_size,
                    label_shards |-> [r \in ranks |-> label_shard(r)],
                    log_probs |-> log_probs, entropy |-> entropy_rmpad],
        entropy |-> ResponseSlice(full_entropy, R),
        log_probs |-> ResponseSlice(full_log_probs, R)]

\* lines 135-144: the dense path
forward_dense(ids, responses, R) ==
    LET logits == ResponseSlice([e \in 1..Len(ids) |-> actor_module(ids[e])], R)
    IN [locals |-> NoLocals,
        entropy |-> [e \in 1..Len(ids) |-> entropy_from_logits(logits[e])],
        log_probs |-> [e \in 1..Len(ids) |->
                          logprobs_from_logits(logits[e], responses[e])]]

\* _forward_micro_batch(micro_batch, temperature), lines 58-146
forward_micro_batch ==
    /\ fpc = "call"
    /\ LET R == Len(fresp[1])
           result == IF frmpad THEN forward_rmpad(fids, fmask, R, fsp)
                     ELSE forward_dense(fids, fresp, R)
       IN /\ flocals' = result.locals
          /\ fout' = [entropy |-> result.entropy, log_probs |-> result.log_probs]
    /\ fpc' = "returned"
    /\ UNCHANGED <<fids, fmask, fresp, frmpad, fsp>>

(***************************************************************************)
(* The ranks of one sequence-parallel group.  Every rank runs the same     *)
(* operation on the same batch with the same configuration, so all of them *)
(* iterate over the same list of micro-batches.  A call into the           *)
(* sequence-parallel slicing or gathering is a collective: the rank that   *)
(* issues it waits until every rank of the group has issued the same call. *)
(***************************************************************************)
RankOps == {"update_policy", "compute_log_prob", "compute_log_prob_pr",
            "compute_all_logits"}

RankConfigs ==
    [use_remove_padding : BOOLEAN, sp_size : 1..MaxSp, mode : {"normal", "sft_only"}]

\* the micro-batch runs a forward pass: always in compute_*, in
\* update_policy in normal mode only (lines 525 and 577-590)
RunsForward == rop # "update_policy" \/ rcfg.mode = "normal"

\* a forward in which every rank but rank 0 skips the slicing of the labels
CollectiveCallsButLabelsOnRankZero(rank) ==
    IF RunsForward /\ rcfg.use_remove_padding /\ rcfg.sp_size > 1
    THEN IF rank = 0
         THEN <<"slice_inputs", "slice_labels", "gather_log_probs", "gather_entropy">>
         ELSE <<"slice_inputs", "gather_log_probs", "gather_entropy">>
    ELSE <<>>

\* the collective calls of one forward on rank `rank` (0-based), in order:
\* lines 88-93 and 113-119 (176-180 and 206-213 in _forward_micro_batch_2)
CollectiveCalls(rank) ==
    IF RunsForward /\ rcfg.use_remove_padding /\ rcfg.sp_size > 1
    THEN <<"slice_inputs", "slice_labels", "gather_log_probs", "gather_entropy">>
    ELSE <<>>

\* the calls rank r (1-based) has issued in its current micro-batch
IssuedInMicroBatch(r) == Len(rcalls[r]) - (ru[r] - 1) * Len(CollectiveCalls(r - 1))

\* rank r has issued call number n and every other rank a call number n too
Matched(r) ==
    \A q \in DOMAIN rpc :
        /\ Len(rcalls[q]) >= Len(rcalls[r])
        /\ rcalls[q][Len(rcalls[r])] = rcalls[r][Len(rcalls[r])]

\* rank r issues the next collective call of its forward and waits in it
rank_issue(r) ==
    /\ rpc[r] = "run"
    /\ ru[r] <= Len(rplan)
    /\ IssuedInMicroBatch(r) < Len(CollectiveCalls(r - 1))
    /\ rcalls' = [rcalls EXCEPT ![r] =
                     Append(@, CollectiveCalls(r - 1)[IssuedInMicroBatch(r) + 1])]
    /\ rpc' = [rpc EXCEPT ![r] = "wait"]
    /\ UNCHANGED <<rop, rcfg, rplan, ru>>

\* the collective call rank r waits in completes: every rank has issued it
rank_collective_done(r) ==
    /\ rpc[r] = "wait"
    /\ Matched(r)
    /\ rpc' = [rpc EXCEPT ![r] = "run"]
    /\ UNCHANGED <<rop, rcfg, rplan, ru, rcalls>>

\* a micro-batch end of _forward_micro_batch_2 without the assertion of
\* line 215
rank_micro_batch_end_supported(r) ==
    /\ rpc[r] = "run"
    /\ ru[r] <= Len(rplan)
    /\ IssuedInMicroBatch(r) = Len(CollectiveCalls(r - 1))
    /\ ru' = [ru EXCEPT ![r] = @ + 1]
    /\ UNCHANGED <<rop, rcfg, rplan, rcalls, rpc>>

\* rank r is past the collective calls of its micro-batch: the rest of the
\* iteration is local (loss and backward, or the append to the list); in
\* _forward_micro_batch_2 the assertion of line 215 fails after the gathers
rank_micro_batch_end(r) ==
    /\ rpc[r] = "run"
    /\ ru[r] <= Len(rplan)
    /\ IssuedInMicroBatch(r) = Len(CollectiveCalls(r - 1))
    /\ IF rop = "compute_all_logits" /\ CollectiveCalls(r - 1) # <<>>
       THEN /\ rpc' = [rpc EXCEPT ![r] = "failed"]
            /\ ru' = ru
       ELSE /\ ru' = [ru EXCEPT ![r] = @ + 1]
            /\ rpc' = rpc
    /\ UNCHANGED <<rop, rcfg, rplan, rcalls>>

\* rank r has run every micro-batch and returns from the operation
rank_return(r) ==
    /\ rpc[r] = "run"
    /\ ru[r] > Len(rplan)
    /\ rpc' = [rpc EXCEPT ![r] = "returned"]
    /\ UNCHANGED <<rop, rcfg, rplan, ru, rcalls>>

(***************************************************************************)
(* The auxiliary supervised loss, lines 555-567 and 577-590.  Values are   *)
(* exact fractions num / den of integers; a log-probability is an integer  *)
(* that is not positive.  The guard eps = 1e-6 is taken to its limit: a    *)
(* quotient x / (n + eps) is x / n when n > 0 and 0 when n = 0 (x is 0     *)
(* then), which a fraction with den = 0 stands for.                        *)
(***************************************************************************)
GtShapes == {sh \in (1..MaxGt) \X (1..MaxGt) : sh[1] * sh[2] <= MaxGt}

RECURSIVE SumSeq(_)
\* tensor.sum() of a vector of integers
SumSeq(x) == IF x = <<>> THEN 0 ELSE Head(x) + SumSeq(Tail(x))

FracAdd(a, b) ==
    IF a.den = 0 THEN b
    ELSE IF b.den = 0 THEN a
    ELSE [num |-> a.num * b.den + b.num * a.den, den |-> a.den * b.den]

RECURSIVE FracSum(_)
\* tensor.sum() of a vector of fractions
FracSum(x) == IF x = <<>> THEN [num |-> 0, den |-> 0] ELSE FracAdd(Head(x), FracSum(Tail(x)))

\* token_mean_gt_old_log_prob_pr, lines 561-562 (583-584): per example, the
\* sum of the masked log-probabilities over (the number of masked tokens + eps)
token_mean_gt(gt, lp) ==
    [e \in 1..Len(gt) |->
        [num |-> SumSeq([t \in 1..Len(gt[e]) |-> IF gt[e][t] THEN lp[e][t] ELSE 0]),
         den |-> SumSeq([t \in 1..Len(gt[e]) |-> IF gt[e][t] THEN 1 ELSE 0])]]

\* torch.count_nonzero(token_mean_gt_old_log_prob_pr), line 563 (585): the
\* examples whose mean is not zero
CountedExamples(means) == {e \in DOMAIN means : means[e].num # 0}

\* sft_loss, lines 563-565 (585-587)
sft_loss(gt, lp) ==
    LET means == token_mean_gt(gt, lp)
        total == FracSum(means)
    IN [num |-> -total.num, den |-> total.den * Cardinality(CountedExamples(means))]

\* lines 555-567 in normal mode, 577-590 in sft_only mode
compute_sft_loss ==
    /\ spc = "call"
    /\ sloss' = sft_loss(sgt, slp)
    /\ spc' = "computed"
    /\ UNCHANGED <<smode, sgt, slp>>

(***************************************************************************)
(* The response mask of a micro-batch in normal mode, lines 464-482 and    *)
(* 504-512.  mkeys are the optional mask fields the batch carries; the     *)
(* fields the configuration requires are always carried.                   *)
(***************************************************************************)
MaskShapes ==
    {sh \in (1..MaxMask) \X (1..MaxMask) \X (1..MaxMask) :
        sh[1] * sh[2] <= MaxMask /\ sh[3] <= sh[2]}

\* data.batch.keys() of the batch passed to update_policy
BatchKeys(keys) ==
    {"responses", "input_ids", "attention_mask", "position_ids", "old_log_probs",
     "advantages", "ref_log_prob", "ground_truth_mask_pr", "old_log_probs_pr"} \cup keys

\* select_keys in normal mode, lines 465-475
select_keys(keys, conf) ==
    {"responses", "input_ids", "attention_mask", "position_ids", "old_log_probs", "advantages"}
    \cup (IF conf.use_kl_loss THEN {"ref_log_prob"} ELSE {})
    \cup (IF conf.multi_task THEN {"ground_truth_mask_pr", "old_log_probs_pr"} ELSE {})
    \cup (IF "response_mask_prob" \in keys THEN {"response_mask_pr"} ELSE {})

\* a response mask cut at the columns of the logits, attention_mask[:, -R-1:-1]
attention_response_mask_at_logits(attention_mask, response_length) ==
    [e \in 1..Len(attention_mask) |->
        SubSeq(attention_mask[e], Len(attention_mask[e]) - response_length,
               Len(attention_mask[e]) - 1)]

\* attention_mask[:, -response_length:], lines 511-512
attention_response_mask(attention_mask, response_length) ==
    [e \in 1..Len(attention_mask) |->
        SubSeq(attention_mask[e], Len(attention_mask[e]) - response_length + 1,
               Len(attention_mask[e]))]

\* lines 507-512: the response mask of the micro-batch holding the rows idx
micro_batch_response_mask(selected, idx) ==
    IF "response_mask_pr" \in selected
    THEN [k \in 1..Len(idx) |-> moverride[idx[k]]]
    ELSE attention_response_mask([k \in 1..Len(idx) |-> mattn[idx[k]]], Len(moverride[1]))

\* lines 464-498: data.select keeps the selected fields (a field the batch
\* does not carry cannot be selected: the call fails); the batch is then
\* split into mini-batches and each mini-batch into micro-batches
select_batch ==
    /\ mpc = "call"
    /\ IF select_keys(mkeys, mcfg) \subseteq BatchKeys(mkeys)
       THEN /\ mselect' = select_keys(mkeys, mcfg)
            /\ \E mini \in 1..MaxSplit, micro \in 1..MaxSplit :
                 mmicro' = Flatten([b \in 1..Len(Split([e \in 1..Len(mattn) |-> e], mini)) |->
                                       Split(Split([e \in 1..Len(mattn) |-> e], mini)[b], micro)])
            /\ mpc' = "micro"
       ELSE /\ mpc' = "failed"
            /\ UNCHANGED <<mselect, mmicro>>
    /\ UNCHANGED <<mkeys, mcfg, mattn, moverride, mused>>

\* lines 502-512: the next micro-batch takes its response mask
micro_batch_mask ==
    /\ mpc = "micro"
    /\ mmicro # <<>>
    /\ mused' = Append(mused, [rows |-> Head(mmicro),
                               mask |-> micro_batch_response_mask(mselect, Head(mmicro))])
    /\ mmicro' = Tail(mmicro)
    /\ UNCHANGED <<mpc, mkeys, mcfg, mattn, moverride, mselect>>

\* line 604: every micro-batch has been processed
mask_return ==
    /\ mpc = "micro"
    /\ mmicro = <<>>
    /\ mpc' = "done"
    /\ UNCHANGED <<mkeys, mcfg, mattn, moverride, mselect, mmicro, mused>>

(***************************************************************************)
(* Calls on one actor, one after the other.  The model's mode, parameters  *)
(* and gradients and self.gradient_accumulation outlive an operation;      *)
(* everything else is local to the call and is gone once the operation has *)
(* returned or raised, the history of the call included.  An operation     *)
(* that raised leaves the actor usable.                                    *)
(***************************************************************************)
\* the operation is over: control is back at the caller
operation_exit ==
    /\ pc \in {"returned", "failed"} \/ cpc \in {"returned", "failed"}
    /\ pc' = "off"
    /\ mode' = "normal"
    /\ config' = [use_dynamic_bsz |-> FALSE, ppo_mini_batch_size |-> 1,
                  ppo_micro_batch_size_per_gpu |-> 1, use_kl_loss |-> FALSE,
                  use_sft_loss |-> FALSE, sft_type |-> "bilevel"]
    /\ batch_size' = 1
    /\ requires_grad' = FALSE
    /\ dataloader' = <<>>
    /\ batch_idx' = 1
    /\ micro_batches' = <<>>
    /\ micro_idx' = 1
    /\ data' = [kind |-> "micro_batch", len |-> 0]
    /\ metrics' = <<>>
    /\ ops' = <<>>
    /\ cpc' = "off"
    /\ cop' = "none"
    /\ cfg' = [use_dynamic_bsz |-> FALSE, micro_batch_size |-> 1,
               use_remove_padding |-> FALSE, sp_size |-> 1, batch_size |-> 1]
    /\ cindices' = <<>>
    /\ cmicro' = <<>>
    /\ clst' = <<>>
    /\ cout' = <<>>
    /\ UNCHANGED <<training, params, grads, gradient_accumulation, calls, actor_optimizer>>

\* update_policy(data, mode) is called, lines 458-459
call_update_policy ==
    /\ pc = "off"
    /\ cpc = "off"
    /\ Len(calls) < MaxCalls
    /\ calls' = Append(calls, "update_policy")
    /\ pc' = "call"
    /\ mode' \in Modes
    /\ config' \in Configs
    /\ batch_size' \in 1..MaxBatch
    /\ requires_grad' \in (IF mode' = "sft_only" THEN BOOLEAN ELSE {FALSE})
    /\ UNCHANGED <<training, dataloader, batch_idx, micro_batches, micro_idx,
                   gradient_accumulation, data, params, grads, metrics, ops>>
    /\ UNCHANGED <<cpVars, actor_optimizer>>

\* compute_log_prob, compute_log_prob_pr or compute_all_logits is called,
\* lines 273, 330, 390
call_compute ==
    /\ pc = "off"
    /\ cpc = "off"
    /\ Len(calls) < MaxCalls
    /\ cop' \in ComputeOps
    /\ calls' = Append(calls, cop')
    /\ cpc' = "call"
    /\ cfg' \in ComputeConfigs
    /\ UNCHANGED <<cindices, cmicro, clst, cout>>
    /\ UNCHANGED <<upVars, actor_optimizer>>

\* the state before a compute_* operation is called
ComputeIdle ==
    /\ cpc = "off"
    /\ cop = "none"
    /\ cfg = [use_dynamic_bsz |-> FALSE, micro_batch_size |-> 1,
              use_remove_padding |-> FALSE, sp_size |-> 1, batch_size |-> 1]
    /\ cindices = <<>>
    /\ cmicro = <<>>
    /\ clst = <<>>
    /\ cout = <<>>

\* the state before anything is packed
PackIdle ==
    /\ kpc = "off"
    /\ kx = <<>>
    /\ kmask = <<>>
    /\ kflat = <<>>
    /\ kindices = <<>>
    /\ kout = <<>>

\* the state before a micro-batch is forwarded
ForwardIdle ==
    /\ fpc = "off"
    /\ fids = <<>>
    /\ fmask = <<>>
    /\ fresp = <<>>
    /\ frmpad = FALSE
    /\ fsp = 1
    /\ flocals = NoLocals
    /\ fout = <<>>

\* the state before a sequence-parallel group runs an operation
RanksIdle ==
    /\ rop = "none"
    /\ rcfg = [use_remove_padding |-> FALSE, sp_size |-> 1]
    /\ rplan = <<>>
    /\ rpc = <<>>
    /\ ru = <<>>
    /\ rcalls = <<>>

\* the state before an auxiliary loss is computed
SftIdle ==
    /\ spc = "off"
    /\ smode = "none"
    /\ sgt = <<>>
    /\ slp = <<>>
    /\ sloss = [num |-> 0, den |-> 0]

\* the state before the response mask of a batch is chosen
MaskIdle ==
    /\ mpc = "off"
    /\ mkeys = {}
    /\ mcfg = [use_kl_loss |-> FALSE, multi_task |-> FALSE]
    /\ mattn = <<>>
    /\ moverride = <<>>
    /\ mselect = {}
    /\ mmicro = <<>>
    /\ mused = <<>>

\* a freshly constructed actor that has an optimizer
ActorIdle ==
    /\ calls = <<>>
    /\ actor_optimizer = "optimizer"

\* the state before update_policy is called
UpdateIdle ==
    /\ pc = "off"
    /\ mode = "normal"
    /\ config = [use_dynamic_bsz |-> FALSE, ppo_mini_batch_size |-> 1,
                 ppo_micro_batch_size_per_gpu |-> 1, use_kl_loss |-> FALSE,
                 use_sft_loss |-> FALSE, sft_type |-> "bilevel"]
    /\ batch_size = 1
    /\ requires_grad = FALSE
    /\ training = TRUE
    /\ dataloader = <<>>
    /\ batch_idx = 1
    /\ micro_batches = <<>>
    /\ micro_idx = 1
    /\ gradient_accumulation = -1
    /\ data = [kind |-> "micro_batch", len |-> 0]
    /\ params = 0
    /\ grads = <<>>
    /\ metrics = <<>>
    /\ ops = <<>>

(***************************************************************************)
(* Spec: one call of update_policy on a freshly constructed actor, for     *)
(* every mode, configuration and batch size within the bounds.  grad_clip  *)
(* is configured (the assertion of line 258 holds).  requires_grad only    *)
(* matters in sft_only mode.                                               *)
(***************************************************************************)
Init ==
    /\ pc = "call"
    /\ mode \in Modes
    /\ config \in Configs
    /\ batch_size \in 1..MaxBatch
    /\ requires_grad \in (IF mode = "sft_only" THEN BOOLEAN ELSE {FALSE})
    /\ training \in BOOLEAN
    /\ dataloader = <<>>
    /\ batch_idx = 1
    /\ micro_batches = <<>>
    /\ micro_idx = 1
    /\ gradient_accumulation = -1
    /\ data = [kind |-> "micro_batch", len |-> 0]
    /\ params = 0
    /\ grads = <<>>
    /\ metrics = <<>>
    /\ ops = <<>>
    /\ ComputeIdle
    /\ PackIdle
    /\ ForwardIdle
    /\ RanksIdle
    /\ SftIdle
    /\ MaskIdle
    /\ ActorIdle

Next ==
    \/ (update_policy_enter /\ UNCHANGED <<cpVars, pkVars, fwVars, rkVars, sfVars, mkVars, acVars>>)
    \/ (mini_batch_begin /\ UNCHANGED <<cpVars, pkVars, fwVars, rkVars, sfVars, mkVars, acVars>>)
    \/ (micro_batch_loss /\ UNCHANGED <<cpVars, pkVars, fwVars, rkVars, sfVars, mkVars, acVars>>)
    \/ (micro_batch_backward /\ UNCHANGED <<cpVars, pkVars, fwVars, rkVars, sfVars, mkVars, acVars>>)
    \/ (mini_batch_update /\ UNCHANGED <<cpVars, pkVars, fwVars, rkVars, sfVars, mkVars, acVars>>)
    \/ (update_policy_return /\ UNCHANGED <<cpVars, pkVars, fwVars, rkVars, sfVars, mkVars, acVars>>)

Spec == Init /\ [][Next]_vars

(***************************************************************************)
(* SpecCompute: one call of a compute_* operation, for every operation,    *)
(* configuration and batch size within the bounds.                         *)
(***************************************************************************)
InitCompute ==
    /\ UpdateIdle
    /\ PackIdle
    /\ ForwardIdle
    /\ RanksIdle
    /\ SftIdle
    /\ MaskIdle
    /\ calls = <<>>
    /\ actor_optimizer \in {"optimizer", "none"}
    /\ cpc = "call"
    /\ cop \in ComputeOps
    /\ cfg \in ComputeConfigs
    /\ cindices = <<>>
    /\ cmicro = <<>>
    /\ clst = <<>>
    /\ cout = <<>>

NextCompute ==
    \/ (compute_enter /\ UNCHANGED <<pkVars, fwVars, rkVars, sfVars, mkVars, acVars>>)
    \/ (compute_forward /\ UNCHANGED <<pkVars, fwVars, rkVars, sfVars, mkVars, acVars>>)
    \/ (compute_return /\ UNCHANGED <<pkVars, fwVars, rkVars, sfVars, mkVars, acVars>>)

SpecCompute == InitCompute /\ [][NextCompute]_vars

(***************************************************************************)
(* SpecPack: packing and unpacking of every tensor and every mask with at  *)
(* least one valid position per example, within the bounds.                *)
(***************************************************************************)
InitPack ==
    /\ UpdateIdle
    /\ ComputeIdle
    /\ ForwardIdle
    /\ RanksIdle
    /\ SftIdle
    /\ MaskIdle
    /\ ActorIdle
    /\ kpc = "padded"
    /\ \E sh \in Shapes :
         /\ kx \in [1..sh[1] -> [1..sh[2] -> 0..MaxToken]]
         /\ kmask \in {m \in [1..sh[1] -> [1..sh[2] -> BOOLEAN]] :
                          \A e \in 1..sh[1] : \E s \in 1..sh[2] : m[e][s]}
    /\ kflat = <<>>
    /\ kindices = <<>>
    /\ kout = <<>>

NextPack ==
    \/ (pack /\ UNCHANGED <<upVars, cpVars, fwVars, rkVars, sfVars, mkVars, acVars>>)
    \/ (unpack /\ UNCHANGED <<upVars, cpVars, fwVars, rkVars, sfVars, mkVars, acVars>>)

SpecPack == InitPack /\ [][NextPack]_vars

(***************************************************************************)
(* SpecForward: one call of _forward_micro_batch, for every shape, every   *)
(* attention mask with at least one valid position per example, every      *)
(* response length that leaves a prompt position, both paths and every     *)
(* sequence-parallel width within the bounds.                              *)
(***************************************************************************)
InitForward ==
    /\ UpdateIdle
    /\ ComputeIdle
    /\ PackIdle
    /\ RanksIdle
    /\ SftIdle
    /\ MaskIdle
    /\ ActorIdle
    /\ fpc = "call"
    /\ \E sh \in ForwardShapes :
         /\ fids = TokenIds(sh[1], sh[2])
         /\ fmask \in {m \in [1..sh[1] -> [1..sh[2] -> BOOLEAN]] :
                          \A e \in 1..sh[1] : \E s \in 1..sh[2] : m[e][s]}
         /\ \E R \in 1..(sh[2] - 1) : fresp = ResponsesOf(TokenIds(sh[1], sh[2]), R)
    /\ frmpad \in BOOLEAN
    /\ fsp \in 1..MaxSp
    /\ flocals = NoLocals
    /\ fout = <<>>

NextForward ==
    \/ (forward_micro_batch /\ UNCHANGED <<upVars, cpVars, pkVars, rkVars, sfVars, mkVars, acVars>>)

SpecForward == InitForward /\ [][NextForward]_vars

(***************************************************************************)
(* SpecRanks: the ranks of one sequence-parallel group run one operation   *)
(* on the same batch, each at its own pace.  The list of micro-batches is  *)
(* the same on every rank: the split of the batch is a function of the     *)
(* batch and the configuration (under dynamic batching, of the planner's   *)
(* deterministic grouping; its 1..n micro-batches are covered by the       *)
(* splits below).  Every rank is a process that keeps running, hence the   *)
(* weak fairness of each rank's steps.                                     *)
(***************************************************************************)
InitRanks ==
    /\ UpdateIdle
    /\ ComputeIdle
    /\ PackIdle
    /\ ForwardIdle
    /\ SftIdle
    /\ MaskIdle
    /\ ActorIdle
    /\ rop \in RankOps
    /\ rcfg \in {c \in RankConfigs : c.mode = "sft_only" => rop = "update_policy"}
    /\ \E n \in 1..MaxBatch, size \in 1..MaxSplit :
          rplan = Split([i \in 1..n |-> i], size)
    /\ rpc = [r \in 1..rcfg.sp_size |-> "run"]
    /\ ru = [r \in 1..rcfg.sp_size |-> 1]
    /\ rcalls = [r \in 1..rcfg.sp_size |-> <<>>]

RankStep(r) ==
    /\ r \in DOMAIN rpc
    /\ \/ rank_issue(r)
       \/ rank_collective_done(r)
       \/ rank_micro_batch_end(r)
       \/ rank_return(r)
    /\ UNCHANGED <<upVars, cpVars, pkVars, fwVars, sfVars, mkVars, acVars>>

NextRanks ==
    \/ \E r \in DOMAIN rpc : (rank_issue(r) /\ UNCHANGED <<upVars, cpVars, pkVars, fwVars, sfVars, mkVars, acVars>>)
    \/ \E r \in DOMAIN rpc : (rank_collective_done(r) /\ UNCHANGED <<upVars, cpVars, pkVars, fwVars, sfVars, mkVars, acVars>>)
    \/ \E r \in DOMAIN rpc : (rank_micro_batch_end(r) /\ UNCHANGED <<upVars, cpVars, pkVars, fwVars, sfVars, mkVars, acVars>>)
    \/ \E r \in DOMAIN rpc : (rank_return(r) /\ UNCHANGED <<upVars, cpVars, pkVars, fwVars, sfVars, mkVars, acVars>>)

SpecRanks ==
    /\ InitRanks
    /\ [][NextRanks]_vars
    /\ \A r \in 1..MaxSp : WF_vars(RankStep(r))

(***************************************************************************)
(* SpecSft: the auxiliary loss of one micro-batch, for every ground-truth  *)
(* mask and every tensor of log-probabilities within the bounds, in both   *)
(* objective modes.                                                        *)
(***************************************************************************)
InitSft ==
    /\ UpdateIdle
    /\ ComputeIdle
    /\ PackIdle
    /\ ForwardIdle
    /\ RanksIdle
    /\ MaskIdle
    /\ ActorIdle
    /\ spc = "call"
    /\ smode \in {"normal", "sft_only"}
    /\ \E sh \in GtShapes :
         /\ sgt \in [1..sh[1] -> [1..sh[2] -> BOOLEAN]]
         /\ slp \in [1..sh[1] -> [1..sh[2] -> (0 - MaxNegLogProb)..0]]
    /\ sloss = [num |-> 0, den |-> 0]

NextSft ==
    \/ (compute_sft_loss /\ UNCHANGED <<upVars, cpVars, pkVars, fwVars, rkVars, mkVars, acVars>>)

SpecSft == InitSft /\ [][NextSft]_vars

(***************************************************************************)
(* SpecMask: the response masks of the micro-batches of one update_policy  *)
(* call in normal mode, for every combination of the optional mask fields. *)
(* The tensor response_mask_pr is all-false when the batch does not carry  *)
(* it; it has the shape of responses.                                      *)
(***************************************************************************)
InitMask ==
    /\ UpdateIdle
    /\ ComputeIdle
    /\ PackIdle
    /\ ForwardIdle
    /\ RanksIdle
    /\ SftIdle
    /\ ActorIdle
    /\ mpc = "call"
    /\ mkeys \in SUBSET {"response_mask_pr", "response_mask_prob"}
    /\ mcfg \in [use_kl_loss : BOOLEAN, multi_task : BOOLEAN]
    /\ \E sh \in MaskShapes :
         /\ mattn \in [1..sh[1] -> [1..sh[2] -> BOOLEAN]]
         /\ moverride \in [1..sh[1] -> [1..sh[3] -> BOOLEAN]]
         /\ "response_mask_pr" \notin mkeys =>
                moverride = [e \in 1..sh[1] |-> [j \in 1..sh[3] |-> FALSE]]
    /\ mselect = {}
    /\ mmicro = <<>>
    /\ mused = <<>>

NextMask ==
    \/ (select_batch /\ UNCHANGED <<upVars, cpVars, pkVars, fwVars, rkVars, sfVars, acVars>>)
    \/ (micro_batch_mask /\ UNCHANGED <<upVars, cpVars, pkVars, fwVars, rkVars, sfVars, acVars>>)
    \/ (mask_return /\ UNCHANGED <<upVars, cpVars, pkVars, fwVars, rkVars, sfVars, acVars>>)

SpecMask == InitMask /\ [][NextMask]_vars

(***************************************************************************)
(* SpecCalls: up to MaxCalls operations called one after the other, in any *)
(* order, on an actor constructed with an optimizer; a freshly constructed *)
(* module is in training mode.                                             *)
(***************************************************************************)
InitCalls ==
    /\ UpdateIdle
    /\ ComputeIdle
    /\ PackIdle
    /\ ForwardIdle
    /\ RanksIdle
    /\ SftIdle
    /\ MaskIdle
    /\ ActorIdle

NextCalls ==
    \/ (operation_exit /\ UNCHANGED <<pkVars, fwVars, rkVars, sfVars, mkVars>>)
    \/ (call_update_policy /\ UNCHANGED <<pkVars, fwVars, rkVars, sfVars, mkVars>>)
    \/ (call_compute /\ UNCHANGED <<pkVars, fwVars, rkVars, sfVars, mkVars>>)
    \/ (update_policy_enter /\ UNCHANGED <<cpVars, pkVars, fwVars, rkVars, sfVars, mkVars, acVars>>)
    \/ (mini_batch_begin /\ UNCHANGED <<cpVars, pkVars, fwVars, rkVars, sfVars, mkVars, acVars>>)
    \/ (micro_batch_loss /\ UNCHANGED <<cpVars, pkVars, fwVars, rkVars, sfVars, mkVars, acVars>>)
    \/ (micro_batch_backward /\ UNCHANGED <<cpVars, pkVars, fwVars, rkVars, sfVars, mkVars, acVars>>)
    \/ (mini_batch_update /\ UNCHANGED <<cpVars, pkVars, fwVars, rkVars, sfVars, mkVars, acVars>>)
    \/ (update_policy_return /\ UNCHANGED <<cpVars, pkVars, fwVars, rkVars, sfVars, mkVars, acVars>>)
    \/ (compute_enter /\ UNCHANGED <<pkVars, fwVars, rkVars, sfVars, mkVars, acVars>>)
    \/ (compute_forward /\ UNCHANGED <<pkVars, fwVars, rkVars, sfVars, mkVars, acVars>>)
    \/ (compute_return /\ UNCHANGED <<pkVars, fwVars, rkVars, sfVars, mkVars, acVars>>)

SpecCalls == InitCalls /\ [][NextCalls]_vars

(***************************************************************************)
(* Properties.  Helpers over the history of one update_policy call.        *)
(***************************************************************************)
OpIdx(kind) == {i \in DOMAIN ops : ops[i].op = kind}

ParamsBefore(i) == IF i = 1 THEN 0 ELSE ops[i - 1].params

\* the share of the mini-batch that backward pass i stands for: the last
\* contribution accumulated into the gradients
Contribution(i) == ops[i].grads[Len(ops[i].grads)]

IsPrefix(a, b) == Len(a) <= Len(b) /\ \A i \in DOMAIN a : a[i] = b[i]

\* C1: a mini-batch whose clipped gradient norm is not finite never reaches
\* optimizer.step(): the call that follows the clipping zeroes the
\* gradients, every call made for that mini-batch sees the parameters the
\* mini-batch started with, and any later backward pass is preceded by a
\* zero_grad() issued after the clipping.
C1_NonFiniteNormSkipsUpdate ==
    \A i \in OpIdx("clip") :
        ~ops[i].finite =>
            /\ i < Len(ops)
            /\ ops[i + 1].op = "zero_grad"
            /\ ops[i + 1].grads = <<>>
            /\ \A j \in DOMAIN ops :
                   ops[j].b = ops[i].b =>
                       ops[j].op # "step" /\ ops[j].params = ParamsBefore(i)
            /\ \A j \in OpIdx("backward") :
                   j > i => \E k \in OpIdx("zero_grad") : i < k /\ k < j
            /\ (i + 1 = Len(ops) => params = ParamsBefore(i) /\ grads = <<>>)

C1_Witness ==
    \E i \in OpIdx("clip"), j \in OpIdx("backward") :
        ~ops[i].finite /\ j > i /\ ops[j].b = ops[i].b + 1

\* C2: under dynamic batching, in both objective modes, every backward pass
\* runs on the loss multiplied by
\* (examples in the micro-batch) / ppo_mini_batch_size.
C2_DynamicScaleIsExampleShare ==
    config.use_dynamic_bsz =>
        \A i \in OpIdx("backward") :
            Contribution(i).num * config.ppo_mini_batch_size
                = Len(Contribution(i).ex) * Contribution(i).den

\* C4 as claimed: every mini-batch that reached its optimizer-update point
\* had its parameters written exactly once.
C4_ExactlyOneWritePerMiniBatch ==
    \A i \in OpIdx("clip") :
        Cardinality({j \in OpIdx("step") : ops[j].b = ops[i].b}) = 1

\* C4 as amended: the parameters change only at an optimizer.step() that
\* directly follows the clipping of a finite norm, itself directly after the
\* last backward pass of the mini-batch; a mini-batch is stepped exactly once
\* when its norm is finite and not at all when it is not.
C4_WriteOnlyAtGuardedStep ==
    /\ \A i \in DOMAIN ops :
           ops[i].params # ParamsBefore(i) =>
               /\ ops[i].op = "step"
               /\ i > 2
               /\ ops[i - 1].op = "clip" /\ ops[i - 1].finite
               /\ ops[i - 2].op = "backward" /\ ops[i - 2].b = ops[i].b
               /\ \A j \in OpIdx("backward") : j > i => ops[j].b > ops[i].b
    /\ \A i \in OpIdx("clip") :
           Cardinality({j \in OpIdx("step") : ops[j].b = ops[i].b})
               = (IF ops[i].finite THEN 1 ELSE 0)
    /\ params = Cardinality(OpIdx("step"))

C4_Witness ==
    /\ pc = "returned"
    /\ \E i, j \in OpIdx("clip") : ops[i].finite /\ ~ops[j].finite
    /\ \E i \in OpIdx("backward") : ops[i].u = 2

\* the number of micro-batches the call has run a backward pass for
TotalMicroBatches == Cardinality(OpIdx("backward"))

C6_MetricsAppendOnly ==
    [][pc # "call" =>
          \A k \in DOMAIN metrics :
              /\ k \in DOMAIN metrics'
              /\ IsPrefix(metrics[k].items, metrics'[k].items)]_vars

\* C7: a call with a mode other than normal and sft_only never gets past
\* the dispatch: it fails without a zero_grad, forward, backward, clipping
\* or optimizer step, without touching parameters or gradients, and without
\* metrics.
C7_UnknownModeFailsFirst ==
    mode \notin {"normal", "sft_only"} =>
        /\ pc \in {"call", "failed"}
        /\ ops = <<>>
        /\ metrics = <<>>
        /\ params = 0
        /\ grads = <<>>

C7_Witness == mode \notin {"normal", "sft_only"} /\ pc = "failed"

\* C8: under fixed batching, once a mini-batch whose size is no multiple of
\* ppo_micro_batch_size_per_gpu has been started, the call fails: it makes no
\* optimizer step for it and does not return.
C8_UnevenFixedSplitFails ==
    \A i \in DOMAIN ops :
        (/\ ~config.use_dynamic_bsz
         /\ ops[i].b \in DOMAIN dataloader
         /\ Len(dataloader[ops[i].b]) % config.ppo_micro_batch_size_per_gpu # 0)
        => /\ ops[i].op # "step"
           /\ pc # "returned"

\* the examples of the backward passes of mini-batch b, in the order run
RECURSIVE BackwardExamples(_, _)
BackwardExamples(b, n) ==
    IF n = 0 THEN <<>>
    ELSE BackwardExamples(b, n - 1)
         \o (IF ops[n].op = "backward" /\ ops[n].b = b THEN Contribution(n).ex ELSE <<>>)

IsPermutationOf(seq, S) ==
    /\ Len(seq) = Cardinality(S)
    /\ Range(seq) = S

\* C9: at the return, the mini-batches are contiguous chunks that partition
\* the batch and, for every mini-batch, the micro-batches that had a backward
\* pass hold each example of the mini-batch exactly once; during the call no
\* example has had two backward passes.
C9_MicroBatchesPartition ==
    /\ pc = "returned" =>
           /\ Flatten(dataloader) = [i \in 1..batch_size |-> i]
           /\ \A b \in DOMAIN dataloader :
                  IsPermutationOf(BackwardExamples(b, Len(ops)), Range(dataloader[b]))
    /\ \A i, j \in OpIdx("backward") :
           i # j => Range(Contribution(i).ex) \cap Range(Contribution(j).ex) = {}
    /\ \A i \in OpIdx("backward") :
           /\ Contribution(i).ex # <<>>
           /\ Len(Contribution(i).ex) = Cardinality(Range(Contribution(i).ex))

C9_Witness ==
    /\ pc = "returned"
    /\ ~config.use_dynamic_bsz
    /\ Len(dataloader) >= 2
    /\ Len(dataloader[Len(dataloader)]) < config.ppo_mini_batch_size
    /\ \E i \in OpIdx("backward") : ops[i].u = 2

\* C3: under dynamic batching, row p of every tensor a compute_* operation
\* returns is the row computed for example p of the batch, whatever grouping
\* and order the planner chose.
C3_RowsInOriginalOrder ==
    (cpc = "returned" /\ cfg.use_dynamic_bsz) =>
        \A name \in Outputs(cop) :
            cout[name] = [p \in 1..cfg.batch_size |-> Row(name, p)]

C3_Witness ==
    /\ cpc = "returned"
    /\ cfg.use_dynamic_bsz
    /\ Len(cindices) >= 2
    /\ \E p \in DOMAIN Flatten(cindices) :
           Flatten(cindices)[Flatten(cindices)[p]] # p

\* C10: unpacking what was packed gives x where the mask holds and 0
\* elsewhere; the recorded indices are the flat origins example * S +
\* position of the kept positions, in increasing order, and the packed
\* values are x at those origins.
C10_PackUnpackRoundTrip ==
    LET N == Len(kx)
        S == Len(kx[1])
    IN /\ kpc \in {"packed", "unpacked"} =>
              /\ \A i \in DOMAIN kindices : \A j \in DOMAIN kindices :
                     i < j => kindices[i] < kindices[j]
              /\ Range(kindices) =
                     {f \in 0..(N * S - 1) : At(kmask, S, f)}
              /\ Len(kflat) = Len(kindices)
              /\ \A i \in DOMAIN kindices : kflat[i] = At(kx, S, kindices[i])
       /\ kpc = "unpacked" =>
              /\ Len(kout) = N
              /\ \A e \in 1..N :
                     /\ Len(kout[e]) = S
                     /\ \A s \in 1..S : kout[e][s] = (IF kmask[e][s] THEN kx[e][s] ELSE 0)

C10_Witness ==
    /\ kpc = "unpacked"
    /\ Len(kx) >= 2
    /\ \E e \in DOMAIN kx : \E s \in DOMAIN kx[e] : ~kmask[e][s] /\ kx[e][s] # 0
    /\ \E e \in DOMAIN kx : \E s \in DOMAIN kx[e] : kmask[e][s] /\ kx[e][s] # 0 /\ e >= 2


(***************************************************************************)
(* Properties of _forward_micro_batch.  Columns are 1-based: the source's  *)
(* sequence position p is column p + 1, its response index j is j + 1.     *)
(***************************************************************************)
FwdN == Len(fids)
FwdS == Len(fids[1])
FwdR == Len(fresp[1])
\* the packed stream: the valid tokens in row-major order
FwdStream == index_first_axis(fids, flocals.indices)
\* the column of the logits behind response index j
LogitsColumn(j) == FwdS - FwdR - 1 + j
PackedReturned == fpc = "returned" /\ frmpad

\* C11: with sequence parallelism of width P on a packed stream of length
\* L, the padding is (P - L mod P) mod P, every rank's chunk has length
\* (L + pad) / P, and the gathered, unpadded log-probabilities and
\* entropies have length L, element g being the result for stream position
\* g: its logits, and as label the token that follows it in the stream.
C11_ShardGatherRestoresStream ==
    (PackedReturned /\ fsp > 1) =>
        LET L == Len(flocals.indices)
        IN /\ flocals.pad_size = (fsp - (L % fsp)) % fsp
           /\ \A r \in 1..fsp :
                 Len(flocals.label_shards[r]) * fsp = L + flocals.pad_size
           /\ Len(flocals.log_probs) = L
           /\ Len(flocals.entropy) = L
           /\ \A g \in 1..L :
                 /\ flocals.log_probs[g] =
                        [at |-> FwdStream[g], label |-> FwdStream[(g % L) + 1]]
                 /\ flocals.entropy[g] = [at |-> FwdStream[g]]

\* a stream that needs padding, sharded over at least two ranks
C11_Witness ==
    /\ PackedReturned
    /\ fsp > 1
    /\ flocals.pad_size > 0
    /\ Len(flocals.log_probs) > fsp
    /\ Len(flocals.log_probs) = Len(flocals.indices)

\* C12 (as stated): at width 1 the packed path returns, at every example
\* and every response index, the log-probability and the entropy the dense
\* path returns.
C12_PackedEqualsDense ==
    (PackedReturned /\ fsp = 1) =>
        /\ fout.log_probs = forward_dense(fids, fresp, FwdR).log_probs
        /\ fout.entropy = forward_dense(fids, fresp, FwdR).entropy

\* C12 (amended): at width 1 the packed path returns the dense path's
\* log-probability at every response index whose logits position and label
\* position are both valid, and the dense path's entropy at every response
\* index whose logits position is valid; elsewhere it returns zero or a
\* label taken from the next valid token of the stream.
C12_PackedEqualsDenseWhereValid ==
    (PackedReturned /\ fsp = 1) =>
        \A e \in 1..FwdN : \A j \in 1..FwdR :
            /\ (fmask[e][LogitsColumn(j)] /\ fmask[e][LogitsColumn(j) + 1]) =>
                   fout.log_probs[e][j] = forward_dense(fids, fresp, FwdR).log_probs[e][j]
            /\ fmask[e][LogitsColumn(j)] =>
                   fout.entropy[e][j] = forward_dense(fids, fresp, FwdR).entropy[e][j]
            /\ ~fmask[e][LogitsColumn(j)] =>
                   /\ fout.log_probs[e][j] = ZeroLogProb
                   /\ fout.entropy[e][j] = ZeroEntropy

\* two examples, one with a padded position inside the response span and
\* one whose span is fully valid
C12_Witness ==
    /\ PackedReturned
    /\ fsp = 1
    /\ FwdN >= 2
    /\ \E e \in 1..FwdN : \E j \in 1..FwdR : ~fmask[e][LogitsColumn(j) + 1]
    /\ \E e \in 1..FwdN : \A s \in 1..FwdS : fmask[e][s]
    /\ fout.log_probs # forward_dense(fids, fresp, FwdR).log_probs

\* the flat index and the column of the stream's final position
FinalIndex == flocals.indices[Len(flocals.indices)]
FinalColumn == (FinalIndex % FwdS) + 1
FinalInSlice == FwdS - FwdR <= FinalColumn /\ FinalColumn <= FwdS - 1

\* C15 (as stated): the final position of the packed stream falls outside
\* the response-span slice, for every attention mask.
C15_FinalPositionOutsideSlice == PackedReturned => ~FinalInSlice

\* C15 (amended): the final position of the packed stream falls outside
\* the slice, and no returned log-probability comes from it, exactly when
\* the last example's last valid token sits in the last column or before
\* the span; otherwise it is inside the slice, the log-probability returned
\* there has the first token of the stream as its label, and the attention
\* mask of the following column is false.
C15_FinalPositionOutsideSliceOrMasked ==
    PackedReturned =>
        LET final == At(fids, FwdS, FinalIndex)
        IN IF FinalColumn = FwdS \/ FinalColumn < FwdS - FwdR
           THEN /\ ~FinalInSlice
                /\ \A e \in 1..FwdN : \A j \in 1..FwdR : fout.log_probs[e][j].at # final
           ELSE /\ FinalInSlice
                /\ fout.log_probs[FwdN][FinalColumn - (FwdS - FwdR - 1)] =
                       [at |-> final, label |-> FwdStream[1]]
                /\ ~fmask[FwdN][FinalColumn + 1]

\* the last example is padded on the right inside its response span, among
\* several examples
C15_Witness ==
    /\ PackedReturned
    /\ FinalInSlice
    /\ FwdN >= 2
    /\ fout.log_probs[FwdN][FinalColumn - (FwdS - FwdR - 1)].label = FwdStream[1]

\* C16: in the packed path, at every example e and response index j whose
\* logits position and following position are both valid, the returned
\* log-probability is computed from the logits at that position of e, with
\* the token at the following position of e (response token j) as label.
C16_PackedLabelIsNextTokenOfSameExample ==
    PackedReturned =>
        \A e \in 1..FwdN : \A j \in 1..FwdR :
            (fmask[e][LogitsColumn(j)] /\ fmask[e][LogitsColumn(j) + 1]) =>
                /\ fout.log_probs[e][j] =
                       [at |-> fids[e][LogitsColumn(j)],
                        label |-> fids[e][LogitsColumn(j) + 1]]
                /\ fids[e][LogitsColumn(j) + 1] = fresp[e][j]

\* a padded batch of several examples, sharded, with a response index whose
\* two positions are valid in an example that is not the first
C16_Witness ==
    /\ PackedReturned
    /\ fsp > 1
    /\ \E e \in 1..FwdN : \E s \in 1..FwdS : ~fmask[e][s]
    /\ \E e \in 2..FwdN : \E j \in 1..FwdR :
          /\ fmask[e][LogitsColumn(j)] /\ fmask[e][LogitsColumn(j) + 1]
          /\ fout.log_probs[e][j].label = fresp[e][j]

(***************************************************************************)
(* Properties of a sequence-parallel group.                                *)
(***************************************************************************)
AllRanksDone == \A r \in DOMAIN rpc : rpc[r] \in {"returned", "failed"}

\* the calls two ranks have both issued are the same calls in the same order
SameCallsSoFar ==
    \A r, q \in DOMAIN rpc :
        \A n \in 1..Min(Len(rcalls[r]), Len(rcalls[q])) : rcalls[r][n] = rcalls[q][n]

\* per micro-batch with a packed, sharded forward: slice inputs, slice
\* labels, gather log-probs, gather entropies
FourCallsPerForward ==
    \A r \in DOMAIN rpc : \A n \in DOMAIN rcalls[r] :
        rcalls[r][n] = <<"slice_inputs", "slice_labels", "gather_log_probs",
                         "gather_entropy">>[((n - 1) % 4) + 1]

\* C13: the ranks of a sequence-parallel group that run update_policy or a
\* compute_* operation on the same batch, configuration and mode issue the
\* same collective calls in the same order and number (per micro-batch:
\* slice inputs, slice labels, gather log-probs, gather entropies), and no
\* rank waits in a collective forever: every rank finishes the operation.
C13_RanksIssueSameCollectives ==
    /\ [](SameCallsSoFar /\ FourCallsPerForward)
    /\ [](AllRanksDone => \A r, q \in DOMAIN rpc : rcalls[r] = rcalls[q])
    /\ <>AllRanksDone

\* two ranks have returned from update_policy after two or more
\* micro-batches, each having issued the four calls of every forward
C13_Witness ==
    /\ rop = "update_policy"
    /\ rcfg.sp_size > 1
    /\ Len(rplan) >= 2
    /\ \A r \in DOMAIN rpc : rpc[r] = "returned" /\ Len(rcalls[r]) = 4 * Len(rplan)

(***************************************************************************)
(* Properties of the update_policy loop (continued).                       *)
(***************************************************************************)
NonFiniteSeen == \E i \in OpIdx("clip") : ~ops[i].finite

\* mini-batch b has been fully processed: every example had one backward
\* pass, the norm was clipped once and the optimizer stepped iff it was finite
FullyProcessed(b) ==
    /\ IsPermutationOf(BackwardExamples(b, Len(ops)), Range(dataloader[b]))
    /\ Cardinality({i \in OpIdx("clip") : ops[i].b = b}) = 1
    /\ \A i \in OpIdx("clip") :
          ops[i].b = b =>
              Cardinality({k \in OpIdx("step") : ops[k].b = b}) =
                  (IF ops[i].finite THEN 1 ELSE 0)

\* a variant of the loop: it grows with every step of the call, so no run of
\* the call goes on for ever
Variant ==
    LET M == 2 * MaxBatch + 6
    IN IF pc = "call" THEN 0
       ELSE batch_idx * M +
            (CASE pc = "mini_batch" -> 1
               [] pc = "micro_batch" -> 2 * micro_idx
               [] pc = "backward" -> 2 * micro_idx + 1
               [] OTHER -> M - 1)

\* C14: a non-finite gradient norm cancels only the update of its own
\* mini-batch: the call never fails after one, every mini-batch (the later
\* ones included) is fully processed by the time the call returns with one
\* gradient norm per mini-batch in the metrics, and the call does return,
\* however many norms are non-finite and wherever they fall: until it has
\* returned a next step exists, and every step increases the variant.
C14_NonFiniteNormCancelsOnlyThatUpdate ==
    /\ [](NonFiniteSeen => pc # "failed")
    /\ [](pc = "returned" =>
            /\ \A b \in DOMAIN dataloader : FullyProcessed(b)
            /\ Len(metrics[GradNormKey].items) = Len(dataloader))
    /\ []((NonFiniteSeen /\ pc # "returned") => ENABLED Next)
    /\ [][Variant' > Variant]_vars

\* returned after non-finite norms at the first and third mini-batches and
\* an applied update at the second
C14_Witness ==
    /\ pc = "returned"
    /\ \E i, j, k \in OpIdx("clip") :
          /\ ops[i].b = 1 /\ ~ops[i].finite
          /\ ops[j].b = 2 /\ ops[j].finite
          /\ ops[k].b = 3 /\ ~ops[k].finite
    /\ \E i \in OpIdx("step") : ops[i].b = 2

\* C17 (as stated): within a mini-batch no forward pass runs between the
\* first backward pass of the mini-batch and its optimizer update.
C17_NoForwardAfterFirstBackward ==
    \A i \in OpIdx("backward"), j \in OpIdx("forward") :
        ops[i].b = ops[j].b => j < i

\* C17 (amended): within a mini-batch the parameters are not written between
\* its first forward pass and its optimizer update: every forward pass,
\* backward pass and clipping of the mini-batch sees the same parameters.
\* A forward pass that follows a backward pass of the same mini-batch is the
\* forward pass of a later micro-batch, so with one micro-batch per
\* mini-batch none runs between the backward pass and the update.
C17_NoWriteBetweenForwardsAndUpdate ==
    /\ \A i, j \in DOMAIN ops :
          (/\ ops[i].b = ops[j].b
           /\ ops[i].op \in {"forward", "backward", "clip"}
           /\ ops[j].op \in {"forward", "backward", "clip"}) =>
              /\ ops[i].params = ops[j].params
              /\ ops[i].params = ParamsBefore(i)
    /\ \A i \in OpIdx("backward"), j \in OpIdx("forward") :
          (ops[i].b = ops[j].b /\ i < j) => ops[j].u > ops[i].u
    /\ \A i \in OpIdx("backward"), j \in OpIdx("forward") :
          (ops[i].b = ops[j].b /\ ops[i].u = ops[j].u) => j < i

\* an applied update whose mini-batch had a forward pass after its first
\* backward pass
C17_Witness ==
    \E i \in OpIdx("backward"), j \in OpIdx("forward"), k \in OpIdx("step") :
        /\ ops[i].b = ops[j].b /\ ops[k].b = ops[i].b
        /\ ops[i].u = 1 /\ ops[j].u = 2
        /\ i < j /\ j < k
        /\ ops[j].params = ops[i].params

\* the contributions accumulated into the gradients at event i are those of
\* the micro-batches 1, 2, ... of the event's own mini-batch, one each
OwnMiniBatchOnly(i) ==
    /\ \A n \in DOMAIN ops[i].grads :
          ops[i].grads[n].b = ops[i].b /\ ops[i].grads[n].u = n
    /\ Len(ops[i].grads) =
          Cardinality({j \in OpIdx("backward") : ops[j].b = ops[i].b /\ j < i})

\* C18: every backward pass of a mini-batch is preceded by the zero_grad()
\* that starts the mini-batch, with no backward pass of another mini-batch
\* in between; after every applied update the gradients are zeroed before
\* any later backward pass and before update_policy returns; so the
\* gradients clipped and applied at an update are the scaled gradients of
\* the micro-batches of that mini-batch, each once, and nothing else.
C18_GradientsOfThisMiniBatchOnly ==
    /\ \A j \in OpIdx("backward") :
          \E k \in OpIdx("zero_grad") :
              /\ k < j
              /\ ops[k].b = ops[j].b
              /\ ops[k].grads = <<>>
              /\ \A n \in (k + 1)..(j - 1) :
                    ops[n].op \in {"forward", "backward"} /\ ops[n].b = ops[j].b
    /\ \A i \in OpIdx("step") :
          /\ \A j \in OpIdx("backward") :
                j > i => \E k \in OpIdx("zero_grad") : i < k /\ k < j
          /\ pc = "returned" => \E k \in OpIdx("zero_grad") : i < k
    /\ pc = "returned" => grads = <<>> /\ ops[Len(ops)].op = "zero_grad"
    /\ \A i \in OpIdx("step") \cup OpIdx("clip") : OwnMiniBatchOnly(i)

\* returned after two applied updates, the second on a mini-batch of two
\* micro-batches
C18_Witness ==
    /\ pc = "returned"
    /\ \E i, k \in OpIdx("step") :
          /\ ops[i].b = 1 /\ ops[k].b = 2
          /\ Len(ops[k].grads) = 2
          /\ ops[i].grads # <<>>

\* C19: in both objective modes every micro-batch has exactly one forward
\* pass, then its loss, then exactly one backward pass, in that order: when
\* the loss of a micro-batch is about to be back-propagated the forward pass
\* of that micro-batch is the last call made on the model, a backward pass
\* directly follows the forward pass of the same micro-batch
\* and no micro-batch has two of either.
C19_OneForwardThenOneBackward ==
    /\ pc = "backward" =>
          /\ ops # <<>>
          /\ ops[Len(ops)].op = "forward"
          /\ ops[Len(ops)].b = batch_idx /\ ops[Len(ops)].u = micro_idx
    /\ \A i \in OpIdx("backward") :
          /\ i > 1
          /\ ops[i - 1].op = "forward"
          /\ ops[i - 1].b = ops[i].b /\ ops[i - 1].u = ops[i].u
    /\ \A i, j \in OpIdx("forward") :
          (ops[i].b = ops[j].b /\ ops[i].u = ops[j].u) => i = j
    /\ \A i, j \in OpIdx("backward") :
          (ops[i].b = ops[j].b /\ ops[i].u = ops[j].u) => i = j

(***************************************************************************)
(* Properties of the compute_* operations (continued).                     *)
(***************************************************************************)
\* the planner's index count differs from the number of concatenated rows
IndexCountDiffers ==
    /\ cpc # "call"
    /\ \E name \in Outputs(cop) : Len(Flatten(cindices)) # Len(Flatten(clst[name]))

FracEq(a, b) ==
    IF a.den = 0 \/ a.num = 0 \/ b.den = 0 \/ b.num = 0
    THEN (a.den = 0 \/ a.num = 0) /\ (b.den = 0 \/ b.num = 0)
    ELSE a.num * b.den = b.num * a.den

\* the negated average, over the examples with a ground-truth token, of the
\* example's masked mean log-probability; zero when there is no such example
NegatedAverageOverGroundTruth ==
    LET means == token_mean_gt(sgt, slp)
        withGt == {e \in DOMAIN means : \E t \in DOMAIN sgt[e] : sgt[e][t]}
        total == FracSum([e \in DOMAIN means |->
                             IF e \in withGt THEN means[e] ELSE [num |-> 0, den |-> 0]])
    IN [num |-> -total.num, den |-> total.den * Cardinality(withGt)]

\* C21: the auxiliary supervised loss is the negated average, over exactly
\* the examples that have at least one ground-truth-masked token, of each
\* example's masked mean log-probability, and zero when no example has one.
C21_SftLossAveragesExamplesWithGroundTruth ==
    spc = "computed" => FracEq(sloss, NegatedAverageOverGroundTruth)

(***************************************************************************)
(* Properties of the response mask.                                        *)
(***************************************************************************)
\* C22: in normal mode, whenever the batch carries the response-mask
\* override (response_mask_pr), the override is the response mask of every
\* micro-batch; only when the batch carries no override is the mask the
\* last R columns of attention_mask.
C22_OverrideIsTheResponseMask ==
    \A k \in DOMAIN mused :
         mused[k].mask =
            IF "response_mask_pr" \in mkeys
            THEN [i \in 1..Len(mused[k].rows) |-> moverride[mused[k].rows[i]]]
            ELSE attention_response_mask([i \in 1..Len(mused[k].rows) |-> mattn[mused[k].rows[i]]],
                                         Len(moverride[1]))

(***************************************************************************)
(* Properties of the unsupported combination of compute_all_logits.        *)
(***************************************************************************)
\* full logits are requested with packing and a sequence-parallel width > 1
AllLogitsSharded ==
    rop = "compute_all_logits" /\ rcfg.use_remove_padding /\ rcfg.sp_size > 1

\* rank r has issued both gather calls of its first forward
IssuedBothGathers(r) ==
    /\ Len(rcalls[r]) = 4
    /\ rcalls[r][3] = "gather_log_probs"
    /\ rcalls[r][4] = "gather_entropy"

\* C23: compute_all_logits with packing and a sequence-parallel width
\* greater than 1 never returns: on every rank the forward of the first
\* micro-batch ends in the failure of line 215, which the rank reaches only
\* after it has issued both gather calls, and every rank does reach it;
\* with width 1 or without packing no rank fails.
C23_AllLogitsShardedAlwaysFails ==
    /\ [](\A r \in DOMAIN rpc :
            IF AllLogitsSharded
            THEN /\ rpc[r] # "returned"
                 /\ rpc[r] = "failed" => ru[r] = 1 /\ IssuedBothGathers(r)
            ELSE rpc[r] # "failed")
    /\ (AllLogitsSharded ~> \A r \in DOMAIN rpc : rpc[r] = "failed")

\* both ranks of a group of two have failed in the first of two or more
\* micro-batches, each after its two gathers
C23_Witness ==
    /\ AllLogitsSharded
    /\ Len(rplan) >= 2
    /\ \A r \in DOMAIN rpc : rpc[r] = "failed" /\ IssuedBothGathers(r)

(***************************************************************************)
(* Properties of the loss scale under fixed batching.                      *)
(***************************************************************************)
\* C24: under fixed batching with ppo_micro_batch_size_per_gpu dividing
\* ppo_mini_batch_size, the scale factors 1 / gradient_accumulation of the
\* micro-batch losses of every mini-batch, a final shorter one included,
\* sum to exactly 1 when the gradient norm of the mini-batch is clipped.
C24_FixedScalesSumToOne ==
    (/\ ~config.use_dynamic_bsz
     /\ config.ppo_mini_batch_size % config.ppo_micro_batch_size_per_gpu = 0)
    => \A i \in OpIdx("clip") :
           /\ ops[i].grads # <<>>
           /\ \A k \in DOMAIN ops[i].grads : ops[i].grads[k].den = ops[i].grads[1].den
           /\ SumSeq([k \in DOMAIN ops[i].grads |-> ops[i].grads[k].num]) = ops[i].grads[1].den

(***************************************************************************)
(* Properties of the packed labels under the default response mask.        *)
(***************************************************************************)
\* the default response mask of the micro-batch of the forward pass
DefaultResponseMask == attention_response_mask(fmask, FwdR)

\* output position (e, j) holds a log-probability whose rolled label is not
\* the token at the following position of example e
LabelNotFromNextPosition(e, j) ==
    /\ fout.log_probs[e][j] # ZeroLogProb
    /\ fout.log_probs[e][j].label # fids[e][LogitsColumn(j) + 1]

\* C25: in the packed path with the default response mask, every output
\* position (e, j) of the response-span slice whose rolled label is not the
\* token at the immediately following position of example e (the label
\* crosses into the next example, wraps around the stream or skips padding)
\* has response_mask[e][j] false, for every attention mask.
C25_MisalignedLabelsAreMasked ==
    PackedReturned =>
        \A e \in 1..FwdN : \A j \in 1..FwdR :
            LabelNotFromNextPosition(e, j) => ~DefaultResponseMask[e][j]

\* a packed forward of several examples that returned, at a response index,
\* a log-probability labelled with a token of the next example, and at
\* another with a label that skips padding inside the same example
C25_Witness ==
    /\ PackedReturned
    /\ \E e \in 1..(FwdN - 1) : \E j \in 1..FwdR :
          /\ LabelNotFromNextPosition(e, j)
          /\ \E s \in 1..FwdS : fout.log_probs[e][j].label = fids[e + 1][s]
    /\ \E e \in 1..FwdN : \E j \in 1..FwdR :
          /\ LabelNotFromNextPosition(e, j)
          /\ \E s \in 1..FwdS : fout.log_probs[e][j].label = fids[e][s]

(***************************************************************************)
(* Properties of the model's mode across calls.                            *)
(***************************************************************************)
\* C26: for any sequence of calls to compute_log_prob, compute_log_prob_pr,
\* compute_all_logits and update_policy on one actor, every forward pass
\* issued by update_policy runs with the model in training mode and every
\* forward pass issued by a compute_* operation runs in evaluation mode.
C26_ForwardModeFollowsOperation ==
    \A i \in OpIdx("forward") :
        /\ calls # <<>>
        /\ calls[Len(calls)] = "update_policy" => ops[i].finite
        /\ calls[Len(calls)] \in ComputeOps => ~ops[i].finite

\* a compute_* operation called after update_policy has run a forward pass,
\* and so has an update_policy called after a compute_* operation
C26_Witness ==
    /\ Len(calls) = 2
    /\ \/ calls[1] = "update_policy" /\ calls[2] \in ComputeOps /\ cpc = "returned"
       \/ calls[1] \in ComputeOps /\ calls[2] = "update_policy" /\ pc = "returned"
    /\ OpIdx("forward") # {}

(***************************************************************************)
(* Properties of the compute_* operations on the actor's state.            *)
(***************************************************************************)
\* a step of a compute_* operation leaves the parameters, the accumulated
\* gradients and the optimizer as they are, and the only calls it adds to
\* the history are forward passes
ComputeStepTouchesNothing ==
    cpc # "off" =>
        /\ params' = params
        /\ grads' = grads
        /\ actor_optimizer' = actor_optimizer
        /\ IsPrefix(ops, ops')
        /\ \A i \in (DOMAIN ops') \ (DOMAIN ops) : ops'[i].op = "forward"

\* steps taken so far by the compute_* operation; it grows with every step
\* and is at most the batch size plus two
ComputeVariant ==
    CASE cpc \in {"off", "call"} -> 0
      [] cpc = "loop" -> 1 + Len(clst[CHOOSE name \in Outputs(cop) : TRUE])
      [] OTHER -> cfg.batch_size + 2

\* C27 (as stated): compute_log_prob, compute_log_prob_pr and
\* compute_all_logits never call zero_grad, backward, clipping or the
\* optimizer step and leave parameters, gradients and optimizer untouched,
\* and on an actor constructed without an optimizer every one of them
\* completes: none fails.
C27_ComputeTouchesNothingAndCompletes ==
    /\ [][ComputeStepTouchesNothing]_vars
    /\ [](actor_optimizer = "none" => cpc # "failed")

\* C27 (amended): the compute_* operations touch nothing, and on an actor
\* constructed without an optimizer each of them runs to its return, one
\* forward pass per micro-batch, except compute_all_logits with packing and
\* a sequence-parallel width greater than 1, which fails in its first
\* forward pass whether or not there is an optimizer.
C27_ComputeTouchesNothingAndNeedsNoOptimizer ==
    /\ [][ComputeStepTouchesNothing]_vars
    /\ [](cpc = "failed" => ForwardFails /\ Cardinality(OpIdx("forward")) = 1)
    /\ []((actor_optimizer = "none" /\ ~ForwardFails) =>
             /\ cpc # "failed"
             /\ cpc # "returned" => ENABLED NextCompute)
    /\ [][ComputeVariant' > ComputeVariant]_vars
    /\ [](ComputeVariant <= cfg.batch_size + 2)

\* compute_all_logits has returned on an actor without an optimizer after
\* two or more forward passes
C27_Witness ==
    /\ actor_optimizer = "none"
    /\ cop = "compute_all_logits"
    /\ cpc = "returned"
    /\ Cardinality(OpIdx("forward")) >= 2

====
